---- MODULE Spec2Model ----
(***************************************************************************)
(* Lobby / match orchestration of code-rivals: the Express lobby routes    *)
(* (routes/lobby.js), the persisted User profile (models/User.js) and the  *)
(* Socket.IO inactivity watchdog (server.js).  Every route handler is one  *)
(* action: the requests on one lobby are taken one after the other.       *)
(***************************************************************************)
EXTENDS Integers, Sequences, FiniteSets, TLC

(***************************************************************************)
(* Bounds of the model.                                                    *)
(***************************************************************************)
\* maxPlayers of a create request ranges over 0..MaxCapacity
MaxCapacity == 2
\* initialLives of a create request ranges over 0..MaxInitialLives
MaxInitialLives == 1
\* at most MaxAnswers answers are scored in a run
MaxAnswers == 1
\* the question banks are cut to their first BankSize entries
BankSize == 1
\* Math.random() selects among the first CardDraws catalog entries
CardDraws == 1
\* SpecTurn: the shields, lives and turns of the matches it starts from
MaxShields == 1
MaxLives == 2
MaxTurns == 3
\* the answers scored in a match that is played for the card cadence
CadenceTurns == 4
\* a whole match: the lives a player starts with and the answers scored
MatchLives == 3
MatchTurns == 5
MatchDeck == 2

Users == {"u1", "u2", "u3"}
LobbyIds == {"L1"}
Sockets == {"s1"}
NoUser == "none"

(***************************************************************************)
(* Program constants.                                                      *)
(***************************************************************************)
SchemaTypes ==
    {"free-for-all-qna", "1v1-fill-in-blanks", "solo-coding-challenge",
     "ranked-free-for-all-qna", "ranked-1v1-fill-in-blanks",
     "custom-qna", "custom-fill-in-blanks"}

\* type.startsWith('ranked-')
IsRankedType(t) == t \in {"ranked-free-for-all-qna", "ranked-1v1-fill-in-blanks"}
\* type.startsWith('custom-')
IsCustomType(t) == t \in {"custom-qna", "custom-fill-in-blanks"}
\* type.startsWith('solo-')
IsSoloType(t) == t \in {"solo-coding-challenge"}
\* type.includes('qna')
IncludesQna(t) == t \in {"free-for-all-qna", "ranked-free-for-all-qna", "custom-qna"}
\* type.includes('fill-in-blanks')
IncludesFill(t) ==
    t \in {"1v1-fill-in-blanks", "ranked-1v1-fill-in-blanks", "custom-fill-in-blanks"}

\* the answers (field a) of the two question banks, as character sequences
originalQuestions ==
    << [q |-> "oq1", a |-> <<"4">>],
       [q |-> "oq2", a |-> <<"c", "o", "n", "s", "t">>],
       [q |-> "oq3", a |-> <<"4">>],
       [q |-> "oq4", a |-> <<"-", ">">>],
       [q |-> "oq5", a |-> <<"i", "n", "t", "*", " ", "p", "t", "r", ";">>] >>

fillInBlanksQuestions ==
    << [q |-> "fq1", a |-> <<"w", "o", "r", "l", "d">>],
       [q |-> "fq2", a |-> <<"x">>],
       [q |-> "fq3", a |-> <<"1", "0">>],
       [q |-> "fq4", a |-> <<"M", "y", "C", "l", "a", "s", "s">>],
       [q |-> "fq5", a |-> <<"l", "a", "n", "g", "u", "a", "g", "e">>] >>

abilityCards ==
    << "card_copy", "card_control", "card_golden_defense",
       "card_meta_vision", "card_evolved_meta_vision" >>

INACTIVITY_WARNING_THRESHOLD_MS == 30000
MAX_WARNINGS == 3
PENALTY_DURATION_MS == 60000

RankedCorrectElo == 15
RankedWrongElo == 10
CasualCorrectPoints == 10
CasualWrongPoints == 5
CorrectScore == 100
WrongScore == 50
BaseTokens == 100
RankedBonusTokens == 150
CustomBonusTokens == 100
StartingHandSize == 3
MinPlayersToStart == 2

(***************************************************************************)
(* Sequence helpers (Array.prototype.filter / find / some / every).        *)
(***************************************************************************)
Range(s) == {s[i] : i \in DOMAIN s}

IsHuman(p) == p.type = "human"
Humans(players) == SelectSeq(players, IsHuman)
HasPlayer(players, id) == \E i \in DOMAIN players : players[i].id = id
\* index (1-based) of the first element with this id
IndexOf(players, id) ==
    CHOOSE i \in DOMAIN players :
        /\ players[i].id = id
        /\ \A j \in 1..(i - 1) : players[j].id # id
RemoveId(players, id) == SelectSeq(players, LAMBDA p : p.id # id)

(***************************************************************************)
(* String.prototype.toLowerCase on the characters the model uses.          *)
(***************************************************************************)
LowerChar(c) ==
    CASE c = "C" -> "c"
      [] c = "O" -> "o"
      [] c = "N" -> "n"
      [] c = "S" -> "s"
      [] c = "T" -> "t"
      [] c = "M" -> "m"
      [] c = "W" -> "w"
      [] c = "X" -> "x"
      [] OTHER -> c
toLowerCase(s) == [i \in DOMAIN s |-> LowerChar(s[i])]

\* the userAnswer values a request may carry
AnswerInputs ==
    { <<"4">>, <<" ", "4">>, <<"C", "O", "N", "S", "T">>,
      <<"W", "o", "r", "l", "d">>, <<"X">> }

(***************************************************************************)
(* State.                                                                  *)
(***************************************************************************)
VARIABLES
    lobbies,    \* the Lobby collection: lobbyId -> document
    users,      \* the User collection: user id -> profile
    sockets,    \* the Socket.IO connections and their inactivity timers
    resp,       \* the last request (operation, caller, body) and its response and events
    pending     \* the handlers between the load and the save of a document

vars == <<lobbies, users, sockets, resp, pending>>

\* the handlers that may run at once, and a handler that is not running
Requests == {"r1", "r2"}
Idle == [op |-> "none"]
NoRequests == [r \in Requests |-> Idle]

NewUser ==
    [elo |-> 0, casualPoints |-> 0,
     rankedCorrectAnswers |-> 0, rankedTotalAnswers |-> 0,
     casualCorrectAnswers |-> 0, casualTotalAnswers |-> 0,
     tokens |-> 0, warningCount |-> 0,
     \* penaltyEndTime minus the current time, 0 when null or in the past
     penaltyRemainingMs |-> 0]

\* order: the place of a connected socket in io.sockets.sockets (a Map, kept
\* in the order of connection), 0 while it is not connected
NewSocket ==
    [connected |-> FALSE, order |-> 0, userId |-> NoUser, isInGame |-> FALSE,
     timerUser |-> NoUser, timerSocket |-> NoUser]

Response(op, user, lobbyId, status, msg, events) ==
    [op |-> op, user |-> user, lobbyId |-> lobbyId, status |-> status,
     msg |-> msg, events |-> events, answer |-> <<>>]

\* a server that never looks at the penalty
PenaltyIgnored(u) == FALSE

\* user.penaltyEndTime && new Date() < user.penaltyEndTime
Penalized(u) == users[u].penaltyRemainingMs > 0

Init ==
    /\ lobbies = << >>
    /\ users = [u \in Users |-> NewUser]
    /\ sockets = [s \in Sockets |-> NewSocket]
    /\ resp = Response("none", NoUser, "none", 0, "", <<>>)
    /\ pending = NoRequests

(***************************************************************************)
(* Ability cards: getStartingCards.                                        *)
(***************************************************************************)
\* abilityCards[Math.floor(Math.random() * abilityCards.length)]
RandomCards == {abilityCards[i] : i \in 1..CardDraws}

\* a deal that ignores the mode: three cards in every lobby
getStartingCardsAnyMode(isFrenzyMode) == [1..StartingHandSize -> RandomCards]

getStartingCards(isFrenzyMode) ==
    IF ~isFrenzyMode THEN {<<>>}
    ELSE [1..StartingHandSize -> RandomCards]

\* a human entry that waits for its ready toggle in every mode
HumanPlayerUnready(id, isRanked, profile, lives, cards) ==
    [id |-> id, isReady |-> FALSE, type |-> "human",
     elo |-> profile.elo, casualPoints |-> profile.casualPoints,
     lives |-> lives, currentRoundScore |-> 0,
     roundCorrectAnswers |-> 0, roundTotalAnswers |-> 0,
     cards |-> cards, shields |-> 0, goldenDefenseUsed |-> FALSE]

HumanPlayer(id, isRanked, profile, lives, cards) ==
    [id |-> id, isReady |-> isRanked, type |-> "human",
     elo |-> profile.elo, casualPoints |-> profile.casualPoints,
     lives |-> lives, currentRoundScore |-> 0,
     roundCorrectAnswers |-> 0, roundTotalAnswers |-> 0,
     cards |-> cards, shields |-> 0, goldenDefenseUsed |-> FALSE]

BotPlayer(i, lives, cards) ==
    [id |-> "bot_" \o ToString(i), isReady |-> TRUE, type |-> "bot",
     elo |-> 0, casualPoints |-> 0,
     lives |-> lives, currentRoundScore |-> 0,
     roundCorrectAnswers |-> 0, roundTotalAnswers |-> 0,
     cards |-> cards, shields |-> 0, goldenDefenseUsed |-> FALSE]

(***************************************************************************)
(* POST /api/lobbies : createLobby                                         *)
(***************************************************************************)
\* a creation that leaves the other seats empty
BotsAbsent(maxPlayers, lives, hands) == << >>

\* the bots pushed by the loop  for (i = 1; i < maxPlayers; i++)
Bots(maxPlayers, lives, hands) ==
    [i \in 1..(maxPlayers - 1) |-> BotPlayer(i, lives, hands[i])]

NewLobby(hostId, maxPlayers, type, isFrenzyMode, initialLives, hostCards, botHands) ==
    [type |-> type, hostId |-> hostId,
     players |-> <<HumanPlayer(hostId, IsRankedType(type), users[hostId],
                               initialLives, hostCards)>>
                 \o Bots(maxPlayers, initialLives, botHands),
     maxPlayers |-> maxPlayers, gameStarted |-> FALSE,
     isRanked |-> IsRankedType(type), isCustom |-> IsCustomType(type),
     isFrenzyMode |-> isFrenzyMode, initialLives |-> initialLives,
     playerCycles |-> 0, currentQuestionIndex |-> 0, currentPlayerIndex |-> 0,
     questions |-> <<>>]

createLobby(u, maxPlayers, type, isFrenzyMode, initialLives) ==
    /\ UNCHANGED <<users, sockets>>
    /\ IF Penalized(u)
       THEN /\ resp' = Response("create", u, "none", 403, "penalized", <<>>)
            /\ UNCHANGED lobbies
       ELSE IF type \notin SchemaTypes
       THEN \* newLobby.save() rejects the document (enum), caught as 500
            /\ resp' = Response("create", u, "none", 500, "Server error", <<>>)
            /\ UNCHANGED lobbies
       ELSE \E l \in LobbyIds \ DOMAIN lobbies :
            \E hostCards \in getStartingCards(isFrenzyMode) :
            \E botHands \in [1..(maxPlayers - 1) -> getStartingCards(isFrenzyMode)] :
                /\ lobbies' = [k \in DOMAIN lobbies \cup {l} |->
                                 IF k = l
                                 THEN NewLobby(u, maxPlayers, type, isFrenzyMode,
                                               initialLives, hostCards, botHands)
                                 ELSE lobbies[k]]
                /\ resp' = Response("create", u, l, 201, "created", <<"lobbyCreated">>)

SetLobby(l, doc) == [lobbies EXCEPT ![l] = doc]
DeleteLobby(l) == [k \in DOMAIN lobbies \ {l} |-> lobbies[k]]

(***************************************************************************)
(* POST /api/lobbies/:lobbyId/join : joinLobby                             *)
(***************************************************************************)
\* the full-or-started rejection that precedes the membership test
\* a rejection that looks at the capacity alone
JoinRefusedWhenFull(lobby) == Len(lobby.players) >= lobby.maxPlayers

JoinRefused(lobby) == Len(lobby.players) >= lobby.maxPlayers \/ lobby.gameStarted

joinLobby(u, l) ==
    /\ UNCHANGED <<users, sockets>>
    /\ IF Penalized(u)
       THEN /\ resp' = Response("join", u, l, 403, "penalized", <<>>)
            /\ UNCHANGED lobbies
       ELSE IF l \notin DOMAIN lobbies
       THEN /\ resp' = Response("join", u, l, 404, "Lobby not found", <<>>)
            /\ UNCHANGED lobbies
       ELSE IF JoinRefused(lobbies[l])
       THEN /\ resp' = Response("join", u, l, 400, "full or started", <<>>)
            /\ UNCHANGED lobbies
       ELSE IF HasPlayer(lobbies[l].players, u)
       THEN /\ resp' = Response("join", u, l, 200, "already in lobby", <<>>)
            /\ UNCHANGED lobbies
       ELSE \E cards \in getStartingCards(lobbies[l].isFrenzyMode) :
            /\ lobbies' = SetLobby(l,
                  [lobbies[l] EXCEPT !.players =
                      Append(@, HumanPlayer(u, lobbies[l].isRanked, users[u],
                                            lobbies[l].initialLives, cards))])
            /\ resp' = Response("join", u, l, 200, "joined", <<"lobbyUpdated">>)

(***************************************************************************)
(* POST /api/lobbies/:lobbyId/leave : leaveLobby                           *)
(***************************************************************************)
\* lobby.players.find(p => p.type === 'human'), NoUser when there is none
FirstHumanId(players) ==
    IF Humans(players) = <<>> THEN NoUser ELSE Head(Humans(players)).id

\* a reassignment to whoever is first in the list, bot or human
HostAfterLeaveFirstPlayer(lobby, userId, rest) ==
    IF lobby.hostId = userId THEN rest[1].id ELSE lobby.hostId

\* the host after userId left a lobby that keeps the players `rest`
HostAfterLeave(lobby, userId, rest) ==
    IF lobby.hostId = userId THEN FirstHumanId(rest) ELSE lobby.hostId

leaveLobby(u, l) ==
    /\ UNCHANGED <<users, sockets>>
    /\ IF l \notin DOMAIN lobbies
       THEN /\ resp' = Response("leave", u, l, 404, "Lobby not found", <<>>)
            /\ UNCHANGED lobbies
       ELSE LET lobby == lobbies[l]
                rest == RemoveId(lobby.players, u)
            IN  IF Len(rest) = Len(lobby.players)
                THEN /\ resp' = Response("leave", u, l, 400, "User not found in lobby", <<>>)
                     /\ UNCHANGED lobbies
                ELSE IF Len(Humans(rest)) = 0
                THEN /\ lobbies' = DeleteLobby(l)
                     /\ resp' = Response("leave", u, l, 200, "Lobby deleted", <<"lobbyDeleted">>)
                ELSE IF HostAfterLeave(lobby, u, rest) = NoUser
                THEN /\ lobbies' = DeleteLobby(l)
                     /\ resp' = Response("leave", u, l, 200, "Lobby deleted", <<"lobbyDeleted">>)
                ELSE /\ lobbies' = SetLobby(l,
                            [lobby EXCEPT !.players = rest,
                                          !.hostId = HostAfterLeave(lobby, u, rest)])
                     /\ resp' = Response("leave", u, l, 200, "Left lobby", <<"lobbyUpdated">>)

(***************************************************************************)
(* POST /api/lobbies/:lobbyId/ready : toggleReady                          *)
(***************************************************************************)
toggleReady(u, l) ==
    /\ UNCHANGED <<users, sockets>>
    /\ IF l \notin DOMAIN lobbies
       THEN /\ resp' = Response("ready", u, l, 404, "Lobby not found", <<>>)
            /\ UNCHANGED lobbies
       ELSE IF ~HasPlayer(lobbies[l].players, u)
       THEN /\ resp' = Response("ready", u, l, 400, "Player not in this lobby", <<>>)
            /\ UNCHANGED lobbies
       ELSE IF lobbies[l].isRanked
       THEN /\ resp' = Response("ready", u, l, 400, "automatically ready", <<>>)
            /\ UNCHANGED lobbies
       ELSE LET i == IndexOf(lobbies[l].players, u)
            IN  /\ lobbies' = SetLobby(l,
                      [lobbies[l] EXCEPT !.players[i].isReady = ~@])
                /\ resp' = Response("ready", u, l, 200, "Ready status updated", <<"lobbyUpdated">>)

(***************************************************************************)
(* POST /api/lobbies/:lobbyId/start : startGame                            *)
(***************************************************************************)
\* a server with the quiz bank only
QuestionBankQuizOnly(type) == SubSeq(originalQuestions, 1, BankSize)

\* the bank chosen by lobby.type, cut to BankSize entries
QuestionBank(type) ==
    IF IncludesQna(type) THEN SubSeq(originalQuestions, 1, BankSize)
    ELSE IF IncludesFill(type) THEN SubSeq(fillInBlanksQuestions, 1, BankSize)
    ELSE SubSeq(originalQuestions, 1, BankSize)

\* [...bank].sort(() => Math.random() - 0.5): some reordering of the bank
Shuffles(bank) ==
    {[i \in DOMAIN bank |-> bank[f[i]]] :
        f \in {g \in [DOMAIN bank -> DOMAIN bank] :
                  \A i, j \in DOMAIN bank : i # j => g[i] # g[j]}}

\* the per-player reset of startGame
\* a reset that carries the round score and counters into the new game
ResetPlayerKeepRound(p, initialLives, cards) ==
    [p EXCEPT !.lives = initialLives,
              !.cards = cards, !.shields = 0, !.goldenDefenseUsed = FALSE]

\* a reset that hands every player one shield
ResetPlayerShielded(p, initialLives, cards) ==
    [p EXCEPT !.lives = initialLives, !.currentRoundScore = 0,
              !.roundCorrectAnswers = 0, !.roundTotalAnswers = 0,
              !.cards = cards, !.shields = 1, !.goldenDefenseUsed = FALSE]

ResetPlayer(p, initialLives, cards) ==
    [p EXCEPT !.lives = initialLives, !.currentRoundScore = 0,
              !.roundCorrectAnswers = 0, !.roundTotalAnswers = 0,
              !.cards = cards, !.shields = 0, !.goldenDefenseUsed = FALSE]

\* start guards without the test of the number of players
StartRefusalAnySize(lobby, userId) ==
    IF lobby.hostId # userId THEN 403
    ELSE IF \E i \in DOMAIN lobby.players : ~lobby.players[i].isReady THEN 400
    ELSE 0

StartRefusal(lobby, userId) ==
    IF lobby.hostId # userId THEN 403
    ELSE IF Len(lobby.players) < MinPlayersToStart THEN 400
    ELSE IF \E i \in DOMAIN lobby.players : ~lobby.players[i].isReady THEN 400
    ELSE 0

startGame(u, l) ==
    /\ UNCHANGED <<users, sockets>>
    /\ IF l \notin DOMAIN lobbies
       THEN /\ resp' = Response("start", u, l, 404, "Lobby not found", <<>>)
            /\ UNCHANGED lobbies
       ELSE IF StartRefusal(lobbies[l], u) # 0
       THEN /\ resp' = Response("start", u, l, StartRefusal(lobbies[l], u), "refused", <<>>)
            /\ UNCHANGED lobbies
       ELSE LET lobby == lobbies[l] IN
            \E deck \in Shuffles(QuestionBank(lobby.type)) :
            \E hands \in [DOMAIN lobby.players -> getStartingCards(lobby.isFrenzyMode)] :
                /\ lobbies' = SetLobby(l,
                      [lobby EXCEPT !.gameStarted = TRUE,
                                    !.currentQuestionIndex = 0,
                                    !.currentPlayerIndex = 0,
                                    !.playerCycles = 0,
                                    !.questions = deck,
                                    !.players = [i \in DOMAIN lobby.players |->
                                        ResetPlayer(lobby.players[i], lobby.initialLives,
                                                    hands[i])]])
                /\ resp' = Response("start", u, l, 200, "Game started", <<"gameStarted">>)

(***************************************************************************)
(* POST /api/lobbies/:lobbyId/answer : submitAnswer                        *)
(***************************************************************************)
\* userAnswer.toLowerCase() === currentQuestion.a.toLowerCase()
IsCorrectAnswer(userAnswer, question) == toLowerCase(userAnswer) = toLowerCase(question.a)

\* Golden Defense: a wrong answer of a player holding a shield
ShieldAbsorbs(p, isCorrect) == ~isCorrect /\ p.shields > 0

\* a scoring without the Golden Defense: every wrong answer costs a life
ApplyAnswerUnshielded(p, isCorrect) ==
    [p EXCEPT !.roundTotalAnswers = @ + 1,
              !.roundCorrectAnswers = IF isCorrect THEN @ + 1 ELSE @,
              !.currentRoundScore =
                  IF isCorrect THEN @ + CorrectScore ELSE @ - WrongScore,
              !.lives = IF isCorrect THEN @ ELSE @ - 1]

\* the answerer after the shield, counter, score and life updates
ApplyAnswer(p, isCorrect) ==
    LET absorbed == ShieldAbsorbs(p, isCorrect)
        actualIsCorrect == isCorrect \/ absorbed
    IN  [p EXCEPT !.shields = IF absorbed THEN @ - 1 ELSE @,
                  !.roundTotalAnswers = @ + 1,
                  !.roundCorrectAnswers = IF actualIsCorrect THEN @ + 1 ELSE @,
                  !.currentRoundScore =
                      IF actualIsCorrect THEN @ + CorrectScore ELSE @ - WrongScore,
                  !.lives = IF actualIsCorrect THEN @ ELSE @ - 1]

FloorAtZero(x) == IF x < 0 THEN 0 ELSE x

\* a ledger without the floor at zero
UpdateLedgerUnfloored(profile, isRanked, isCorrect) ==
    IF isRanked
    THEN [profile EXCEPT
            !.rankedTotalAnswers = @ + 1,
            !.rankedCorrectAnswers = IF isCorrect THEN @ + 1 ELSE @,
            !.elo = IF isCorrect THEN @ + RankedCorrectElo ELSE @ - RankedWrongElo]
    ELSE [profile EXCEPT
            !.casualTotalAnswers = @ + 1,
            !.casualCorrectAnswers = IF isCorrect THEN @ + 1 ELSE @,
            !.casualPoints = IF isCorrect THEN @ + CasualCorrectPoints
                             ELSE @ - CasualWrongPoints]

\* the update of the stored profile, keyed by the raw correctness
UpdateLedger(profile, isRanked, isCorrect) ==
    IF isRanked
    THEN [profile EXCEPT
            !.rankedTotalAnswers = @ + 1,
            !.rankedCorrectAnswers = IF isCorrect THEN @ + 1 ELSE @,
            !.elo = FloorAtZero(IF isCorrect THEN @ + RankedCorrectElo
                                ELSE @ - RankedWrongElo)]
    ELSE [profile EXCEPT
            !.casualTotalAnswers = @ + 1,
            !.casualCorrectAnswers = IF isCorrect THEN @ + 1 ELSE @,
            !.casualPoints = FloorAtZero(IF isCorrect THEN @ + CasualCorrectPoints
                                         ELSE @ - CasualWrongPoints)]

\* an elimination that waits for the lives to fall below zero
EliminateBelowZero(players, p) ==
    IF p.lives < 0 THEN RemoveId(players, p.id) ELSE players

\* the elimination check: the roster once the answerer p was written back
Eliminate(players, p) ==
    IF p.lives <= 0 THEN RemoveId(players, p.id) ELSE players

\* a match that goes on until no human is left
GameEndsWithoutHumans(players) == Len(Humans(players)) = 0

\* lobby.players.filter(p => p.type === 'human').length <= 1
GameEnds(players) == Len(Humans(players)) <= 1

tokensEarned(lobby) ==
    BaseTokens + (IF lobby.isRanked THEN RankedBonusTokens
                  ELSE IF lobby.isCustom THEN CustomBonusTokens ELSE 0)

\* the while loop that skips players with lives <= 0; -1 when it never exits
RECURSIVE SkipEliminated(_, _, _)
SkipEliminated(players, idx, visited) ==
    IF players[idx + 1].lives > 0 THEN idx
    ELSE IF visited >= Len(players) THEN -1
    ELSE SkipEliminated(players, (idx + 1) % Len(players), visited + 1)

\* the turn pointer after the turn of the player at currentPlayerIndex
AdvanceTurn(players, currentPlayerIndex) ==
    SkipEliminated(players, (currentPlayerIndex + 1) % Len(players), 1)

\* a question index that runs off the end of the deck
NextQuestionIndexUnwrapped(idx, deckLength) == idx + 1

NextQuestionIndex(idx, deckLength) ==
    IF idx + 1 >= deckLength THEN 0 ELSE idx + 1

\* does the turn of answerer p count towards the card cadence
CountsCycle(p, type) ==
    p.type = "human" \/ (p.type = "bot" /\ ~IsSoloType(type))

\* a cadence of one card per round of the table instead of every second
DealsCardEachRound(isFrenzyMode, cycles, playerCount) ==
    isFrenzyMode /\ cycles % playerCount = 0

\* is a card dealt once the cycle counter reached `cycles`
DealsCard(isFrenzyMode, cycles, playerCount) ==
    isFrenzyMode /\ cycles % (playerCount * 2) = 0

GiveCard(players, card) ==
    [i \in DOMAIN players |-> [players[i] EXCEPT !.cards = Append(@, card)]]

\* the chat messages of the scoring part, in the order they are emitted
ScoringEvents(p, isCorrect) ==
    (IF ShieldAbsorbs(p, isCorrect) THEN <<"chat:absorbed">> ELSE <<>>)
    \o (IF isCorrect \/ ShieldAbsorbs(p, isCorrect)
        THEN <<"chat:correct">> ELSE <<"chat:incorrect">>)
    \o (IF ApplyAnswer(p, isCorrect).lives <= 0 THEN <<"chat:eliminated">> ELSE <<>>)

\* has the server stopped answering (the skip loop of a request never exits)
Hung == resp.msg = "no response"

RECURSIVE SumOver(_, _)
SumOver(S, f) ==
    IF S = {} THEN 0
    ELSE LET x == CHOOSE y \in S : TRUE IN f[x] + SumOver(S \ {x}, f)

\* the answers scored so far, over all profiles
ScoredAnswers ==
    SumOver(Users, [u \in Users |->
        users[u].rankedTotalAnswers + users[u].casualTotalAnswers])

Answered(userAnswer, u, l, status, msg, events) ==
    [Response("answer", u, l, status, msg, events) EXCEPT !.answer = userAnswer]

\* answer guards that let any member of the lobby take the turn
AnswerRefusalAnyMember(u, l) ==
    IF l \notin DOMAIN lobbies \/ (l \in DOMAIN lobbies /\ ~lobbies[l].gameStarted)
    THEN 400
    ELSE IF ~HasPlayer(lobbies[l].players, u) THEN 403
    ELSE IF lobbies[l].currentQuestionIndex >= Len(lobbies[l].questions) THEN 500
    ELSE 0

\* the status of the rejection of an answer of u on lobby l, 0 when it is
\* scored; reading a field of undefined throws and is caught as 500
AnswerRefusal(u, l) ==
    IF l \notin DOMAIN lobbies \/ (l \in DOMAIN lobbies /\ ~lobbies[l].gameStarted)
    THEN 400
    ELSE IF ~HasPlayer(lobbies[l].players, u) THEN 403
    ELSE IF lobbies[l].currentPlayerIndex >= Len(lobbies[l].players) THEN 500
    ELSE IF lobbies[l].players[lobbies[l].currentPlayerIndex + 1].id # u THEN 403
    ELSE IF lobbies[l].currentQuestionIndex >= Len(lobbies[l].questions) THEN 500
    ELSE 0

RefusalMsg(status) ==
    IF status = 400 THEN "Game not active"
    ELSE IF status = 403 THEN "not your turn"
    ELSE "Server error"

submitAnswer(u, l, userAnswer) ==
    /\ UNCHANGED sockets
    /\ IF AnswerRefusal(u, l) # 0
       THEN /\ resp' = Answered(userAnswer, u, l, AnswerRefusal(u, l),
                                RefusalMsg(AnswerRefusal(u, l)), <<>>)
            /\ UNCHANGED <<lobbies, users>>
       ELSE LET lobby == lobbies[l]
                i == IndexOf(lobby.players, u)
                isCorrect ==
                    IsCorrectAnswer(userAnswer,
                                    lobby.questions[lobby.currentQuestionIndex + 1])
                p == ApplyAnswer(lobby.players[i], isCorrect)
                scored == users[u]
                ledger == [users EXCEPT ![u] =
                              UpdateLedger(@, lobby.isRanked, isCorrect)]
                rest == Eliminate([lobby.players EXCEPT ![i] = p], p)
                events == ScoringEvents(lobby.players[i], isCorrect)
            IN  IF GameEnds(rest)
                THEN LET winner == FirstHumanId(rest) IN
                     /\ lobbies' = SetLobby(l,
                            [lobby EXCEPT !.players = rest, !.gameStarted = FALSE])
                     /\ users' = IF winner = NoUser THEN ledger
                                 ELSE [ledger EXCEPT ![winner].tokens =
                                          @ + tokensEarned(lobby)]
                     /\ resp' = Answered(userAnswer, u, l, 200, "Game over",
                            events
                            \o (IF winner = NoUser THEN <<>> ELSE <<"chat:won">>)
                            \o <<"gameEnded">>)
                ELSE IF AdvanceTurn(rest, lobby.currentPlayerIndex) = -1
                THEN \* the profile is saved, the lobby never is
                     /\ users' = ledger
                     /\ UNCHANGED lobbies
                     /\ resp' = Answered(userAnswer, u, l, 0, "no response", events)
                ELSE LET cycles == IF CountsCycle(p, lobby.type)
                                   THEN lobby.playerCycles + 1
                                   ELSE lobby.playerCycles
                         deals == /\ CountsCycle(p, lobby.type)
                                  /\ DealsCard(lobby.isFrenzyMode, cycles, Len(rest))
                     IN  \E card \in RandomCards :
                         /\ lobbies' = SetLobby(l,
                              [lobby EXCEPT
                                 !.players = IF deals THEN GiveCard(rest, card) ELSE rest,
                                 !.currentPlayerIndex =
                                     AdvanceTurn(rest, lobby.currentPlayerIndex),
                                 !.currentQuestionIndex =
                                     NextQuestionIndex(lobby.currentQuestionIndex,
                                                       Len(lobby.questions)),
                                 !.playerCycles = cycles])
                         /\ users' = ledger
                         /\ resp' = Answered(userAnswer, u, l, 200, "Answer processed",
                              events
                              \o (IF deals THEN <<"chat:cards">> ELSE <<>>)
                              \o <<"lobbyUpdated">>)

\* submitAnswer when one of its saves throws: failAt names the save, "user"
\* for user.save() of the ledger, "winner" for winningUser.save(), "lobby"
\* for lobby.save().  What was saved before stays saved, what was emitted
\* before was sent, and the catch block answers 500.
SaveFailures == {"user", "winner", "lobby"}

submitAnswerSaveFails(u, l, userAnswer, failAt) ==
    /\ AnswerRefusal(u, l) = 0
    /\ UNCHANGED <<sockets, lobbies>>
    /\ LET lobby == lobbies[l]
           i == IndexOf(lobby.players, u)
           isCorrect ==
               IsCorrectAnswer(userAnswer,
                               lobby.questions[lobby.currentQuestionIndex + 1])
           p == ApplyAnswer(lobby.players[i], isCorrect)
           ledger == [users EXCEPT ![u] =
                         UpdateLedger(@, lobby.isRanked, isCorrect)]
           rest == Eliminate([lobby.players EXCEPT ![i] = p], p)
           winner == FirstHumanId(rest)
           scoring == (IF ShieldAbsorbs(lobby.players[i], isCorrect)
                       THEN <<"chat:absorbed">> ELSE <<>>)
                      \o (IF isCorrect \/ ShieldAbsorbs(lobby.players[i], isCorrect)
                          THEN <<"chat:correct">> ELSE <<"chat:incorrect">>)
           events == ScoringEvents(lobby.players[i], isCorrect)
           cycles == IF CountsCycle(p, lobby.type)
                     THEN lobby.playerCycles + 1 ELSE lobby.playerCycles
           deals == /\ CountsCycle(p, lobby.type)
                    /\ DealsCard(lobby.isFrenzyMode, cycles, Len(rest))
       IN  CASE failAt = "user" ->
                  /\ UNCHANGED users
                  /\ resp' = Answered(userAnswer, u, l, 500, "Server error", scoring)
             [] failAt = "winner" ->
                  /\ GameEnds(rest) /\ winner # NoUser
                  /\ users' = ledger
                  /\ resp' = Answered(userAnswer, u, l, 500, "Server error", events)
             [] failAt = "lobby" ->
                  IF GameEnds(rest)
                  THEN /\ users' = IF winner = NoUser THEN ledger
                                   ELSE [ledger EXCEPT ![winner].tokens =
                                            @ + tokensEarned(lobby)]
                       /\ resp' = Answered(userAnswer, u, l, 500, "Server error",
                              events
                              \o (IF winner = NoUser THEN <<>> ELSE <<"chat:won">>)
                              \o <<"gameEnded">>)
                  ELSE /\ AdvanceTurn(rest, lobby.currentPlayerIndex) # -1
                       /\ users' = ledger
                       /\ resp' = Answered(userAnswer, u, l, 500, "Server error",
                              events \o (IF deals THEN <<"chat:cards">> ELSE <<>>))

\* The join route split at its awaits.  joinLoad: handler r loaded the user
\* and the lobby, passed every test and built playerToAdd.
joinLoad(r, u, l) ==
    /\ ~Hung
    /\ pending[r] = Idle
    /\ ~Penalized(u)
    /\ l \in DOMAIN lobbies
    /\ ~JoinRefused(lobbies[l])
    /\ ~HasPlayer(lobbies[l].players, u)
    /\ \E cards \in getStartingCards(lobbies[l].isFrenzyMode) :
          pending' = [pending EXCEPT ![r] =
              [op |-> "join", user |-> u, lobbyId |-> l,
               player |-> HumanPlayer(u, lobbies[l].isRanked, users[u],
                                      lobbies[l].initialLives, cards)]]
    /\ resp' = Response("load", u, l, 0, "", <<>>)
    /\ UNCHANGED <<lobbies, users, sockets>>

\* joinSave: lobby.players.push(playerToAdd) followed by lobby.save(), which
\* sends the push of the new element to the stored array without a test of
\* what the array holds by then.
joinSave(r) ==
    LET u == pending[r].user
        l == pending[r].lobbyId
    IN
    /\ ~Hung
    /\ pending[r].op = "join"
    /\ l \in DOMAIN lobbies
    /\ pending' = [pending EXCEPT ![r] = Idle]
    /\ lobbies' = SetLobby(l,
          [lobbies[l] EXCEPT !.players = Append(@, pending[r].player)])
    /\ resp' = Response("join", u, l, 200, "joined", <<"lobbyUpdated">>)
    /\ UNCHANGED <<users, sockets>>

\* The answer route split at its first await.  answerLoad: handler r loaded
\* the lobby with Lobby.findOne and passed the guards on that copy.
answerLoad(r, u, l, userAnswer) ==
    /\ ~Hung
    /\ pending[r] = Idle
    /\ AnswerRefusal(u, l) = 0
    /\ pending' = [pending EXCEPT ![r] =
          [op |-> "answer", user |-> u, lobbyId |-> l, answer |-> userAnswer,
           lobby |-> lobbies[l]]]
    /\ resp' = Response("load", u, l, 0, "", <<>>)
    /\ UNCHANGED <<lobbies, users, sockets>>

\* answerSave: the rest of the handler.  The scoring runs on the copy that
\* was loaded, the profiles are read and saved as they are stored now, and
\* lobby.save() writes the paths the handler assigned.  When the stored
\* lobby changed since the load, the save of the players array either goes
\* through or is rejected on the version key and caught as 500, depending
\* on the version of the driver; the profiles are saved by then.
answerSave(r) ==
    LET u == pending[r].user
        l == pending[r].lobbyId
        userAnswer == pending[r].answer
        lobby == pending[r].lobby
        i == IndexOf(lobby.players, u)
        isCorrect ==
            IsCorrectAnswer(userAnswer,
                            lobby.questions[lobby.currentQuestionIndex + 1])
        p == ApplyAnswer(lobby.players[i], isCorrect)
        ledger == [users EXCEPT ![u] = UpdateLedger(@, lobby.isRanked, isCorrect)]
        rest == Eliminate([lobby.players EXCEPT ![i] = p], p)
        winner == FirstHumanId(rest)
        paid == IF winner = NoUser THEN ledger
                ELSE [ledger EXCEPT ![winner].tokens = @ + tokensEarned(lobby)]
        events == ScoringEvents(lobby.players[i], isCorrect)
        cycles == IF CountsCycle(p, lobby.type)
                  THEN lobby.playerCycles + 1 ELSE lobby.playerCycles
        deals == /\ CountsCycle(p, lobby.type)
                 /\ DealsCard(lobby.isFrenzyMode, cycles, Len(rest))
    IN
    /\ ~Hung
    /\ pending[r].op = "answer"
    /\ pending' = [pending EXCEPT ![r] = Idle]
    /\ UNCHANGED sockets
    /\ \E stored \in BOOLEAN :
         /\ (l \in DOMAIN lobbies /\ lobbies[l] = lobby) => stored
         /\ l \notin DOMAIN lobbies => ~stored
         /\ IF GameEnds(rest)
            THEN /\ users' = paid
                 /\ lobbies' = IF stored
                               THEN SetLobby(l, [lobbies[l] EXCEPT
                                                   !.players = rest,
                                                   !.gameStarted = FALSE])
                               ELSE lobbies
                 /\ resp' = Answered(userAnswer, u, l,
                        IF stored THEN 200 ELSE 500,
                        IF stored THEN "Game over" ELSE "Server error",
                        events
                        \o (IF winner = NoUser THEN <<>> ELSE <<"chat:won">>)
                        \o <<"gameEnded">>)
            ELSE IF AdvanceTurn(rest, lobby.currentPlayerIndex) = -1
            THEN /\ users' = ledger
                 /\ UNCHANGED lobbies
                 /\ resp' = Answered(userAnswer, u, l, 0, "no response", events)
            ELSE \E card \in RandomCards :
                 /\ users' = ledger
                 /\ lobbies' = IF stored
                               THEN SetLobby(l, [lobbies[l] EXCEPT
                                      !.players =
                                          IF deals THEN GiveCard(rest, card) ELSE rest,
                                      !.currentPlayerIndex =
                                          AdvanceTurn(rest, lobby.currentPlayerIndex),
                                      !.currentQuestionIndex =
                                          NextQuestionIndex(lobby.currentQuestionIndex,
                                                            Len(lobby.questions)),
                                      !.playerCycles = cycles])
                               ELSE lobbies
                 /\ resp' = Answered(userAnswer, u, l,
                        IF stored THEN 200 ELSE 500,
                        IF stored THEN "Answer processed" ELSE "Server error",
                        events
                        \o (IF deals THEN <<"chat:cards">> ELSE <<>>)
                        \o (IF stored THEN <<"lobbyUpdated">> ELSE <<>>))

(***************************************************************************)
(* server.js: the Socket.IO connection handlers and the inactivity timer.  *)
(***************************************************************************)
SocketEvent == Response("socket", NoUser, "none", 0, "", <<>>)

\* Array.from(io.sockets.sockets.values()).find(s => s.userId === userId)
FindUserSocket(socks, userId) ==
    LET hits == {s \in DOMAIN socks : socks[s].connected /\ socks[s].userId = userId}
    IN  IF hits = {} THEN NoUser
        ELSE CHOOSE s \in hits : \A t \in hits : socks[s].order <= socks[t].order

\* resetInactivityTimer(userId) run by the handlers of socket s, on the
\* connection table socks: the old timer is cleared, a new one is armed
\* only when the user's socket is flagged in-game
resetInactivityTimer(socks, s, userId) ==
    LET userSocket == FindUserSocket(socks, userId)
    IN  IF userSocket # NoUser /\ socks[userSocket].isInGame
        THEN [socks EXCEPT ![s].timerUser = userId, ![s].timerSocket = userSocket]
        ELSE [socks EXCEPT ![s].timerUser = NoUser, ![s].timerSocket = NoUser]

Connected(socks) == {t \in DOMAIN socks : socks[t].connected}

connect(s) ==
    /\ ~sockets[s].connected
    /\ sockets' = [sockets EXCEPT ![s] =
                      [NewSocket EXCEPT !.connected = TRUE,
                                        !.order = 1 + Cardinality(Connected(sockets))]]
    /\ resp' = SocketEvent
    /\ UNCHANGED <<lobbies, users>>

userEnteredGame(s, userId) ==
    /\ sockets[s].connected
    /\ sockets' = resetInactivityTimer(
                      [sockets EXCEPT ![s].userId = userId, ![s].isInGame = TRUE],
                      s, userId)
    /\ resp' = SocketEvent
    /\ UNCHANGED <<lobbies, users>>

activity(s, userId) ==
    /\ sockets[s].connected
    /\ sockets' = resetInactivityTimer(sockets, s, userId)
    /\ resp' = SocketEvent
    /\ UNCHANGED <<lobbies, users>>

userLeftGame(s) ==
    /\ sockets[s].connected
    /\ sockets' = [sockets EXCEPT ![s].isInGame = FALSE,
                                  ![s].timerUser = NoUser, ![s].timerSocket = NoUser]
    /\ resp' = SocketEvent
    /\ UNCHANGED <<lobbies, users>>

disconnect(s) ==
    /\ sockets[s].connected
    /\ sockets' = [t \in DOMAIN sockets |->
                      IF t = s THEN NewSocket
                      ELSE IF sockets[t].order > sockets[s].order
                      THEN [sockets[t] EXCEPT !.order = @ - 1]
                      ELSE sockets[t]]
    /\ resp' = SocketEvent
    /\ UNCHANGED <<lobbies, users>>

\* Lobby.findOne({ 'players.id': userId, gameStarted: true })
ActiveLobbiesOf(userId) ==
    {l \in DOMAIN lobbies :
        lobbies[l].gameStarted /\ HasPlayer(lobbies[l].players, userId)}

\* a counter that is reset only once it has passed MAX_WARNINGS
WarnedLate(profile) ==
    IF profile.warningCount + 1 > MAX_WARNINGS
    THEN [profile EXCEPT !.warningCount = 0,
                         !.penaltyRemainingMs = PENALTY_DURATION_MS]
    ELSE [profile EXCEPT !.warningCount = @ + 1]

\* the profile after the warning counter was raised
Warned(profile) ==
    IF profile.warningCount + 1 >= MAX_WARNINGS
    THEN [profile EXCEPT !.warningCount = 0,
                         !.penaltyRemainingMs = PENALTY_DURATION_MS]
    ELSE [profile EXCEPT !.warningCount = @ + 1]

\* the lobby collection once the penalized user was taken out of lobby l
KickFrom(l, userId) ==
    LET rest == RemoveId(lobbies[l].players, userId)
    IN  IF Len(Humans(rest)) = 0 THEN DeleteLobby(l)
        ELSE SetLobby(l, [lobbies[l] EXCEPT !.players = rest])

\* the setTimeout callback armed by socket s fires
inactivityExpiry(s) ==
    LET userId == sockets[s].timerUser IN
    /\ userId # NoUser
    /\ sockets' = [sockets EXCEPT ![s].timerUser = NoUser, ![s].timerSocket = NoUser]
    /\ users' = [users EXCEPT ![userId] = Warned(@)]
    /\ IF users[userId].warningCount + 1 >= MAX_WARNINGS
       THEN IF ActiveLobbiesOf(userId) = {}
            THEN /\ UNCHANGED lobbies
                 /\ resp' = Response("expiry", userId, "none", 0, "penalty",
                                     <<"penaltyApplied">>)
            ELSE \E l \in ActiveLobbiesOf(userId) :
                 /\ lobbies' = KickFrom(l, userId)
                 /\ resp' = Response("expiry", userId, l, 0, "penalty",
                        <<"penaltyApplied">>
                        \o (IF l \in DOMAIN KickFrom(l, userId)
                            THEN <<"lobbyUpdated">> ELSE <<"lobbyDeleted">>)
                        \o <<"kickedFromGame">>)
       ELSE /\ UNCHANGED lobbies
            /\ resp' = Response("expiry", userId, "none", 0, "warning",
                                <<"inactivityWarning">>)

\* The callback split at its awaits.  expiryLoad: the timer of socket s
\* fires and  await User.findById(userId)  returns the stored profile to
\* handler r.
expiryLoad(r, s) ==
    LET userId == sockets[s].timerUser IN
    /\ ~Hung
    /\ pending[r] = Idle
    /\ userId # NoUser
    /\ sockets' = [sockets EXCEPT ![s].timerUser = NoUser, ![s].timerSocket = NoUser]
    /\ pending' = [pending EXCEPT ![r] =
                      [op |-> "expiry", user |-> userId, profile |-> users[userId]]]
    /\ resp' = Response("load", userId, "none", 0, "", <<>>)
    /\ UNCHANGED <<lobbies, users>>

\* expirySave: handler r raises the counter of the profile it loaded, takes
\* the user out of a started lobby at the third warning, and  user.save()
\* writes the paths it modified (warningCount, and penaltyEndTime when set)
\* over whatever is stored by then.
expirySave(r) ==
    LET userId == pending[r].user
        loaded == pending[r].profile
        penalized == loaded.warningCount + 1 >= MAX_WARNINGS
    IN
    /\ ~Hung
    /\ pending[r].op = "expiry"
    /\ pending' = [pending EXCEPT ![r] = Idle]
    /\ users' = [users EXCEPT
                    ![userId].warningCount = Warned(loaded).warningCount,
                    ![userId].penaltyRemainingMs =
                        IF penalized THEN Warned(loaded).penaltyRemainingMs ELSE @]
    /\ UNCHANGED sockets
    /\ IF penalized
       THEN IF ActiveLobbiesOf(userId) = {}
            THEN /\ UNCHANGED lobbies
                 /\ resp' = Response("expiry", userId, "none", 0, "penalty",
                                     <<"penaltyApplied">>)
            ELSE \E l \in ActiveLobbiesOf(userId) :
                 /\ lobbies' = KickFrom(l, userId)
                 /\ resp' = Response("expiry", userId, l, 0, "penalty",
                        <<"penaltyApplied">>
                        \o (IF l \in DOMAIN KickFrom(l, userId)
                            THEN <<"lobbyUpdated">> ELSE <<"lobbyDeleted">>)
                        \o <<"kickedFromGame">>)
       ELSE /\ UNCHANGED lobbies
            /\ resp' = Response("expiry", userId, "none", 0, "warning",
                                <<"inactivityWarning">>)

\* INACTIVITY_WARNING_THRESHOLD_MS of wall-clock time pass
Tick ==
    /\ \E u \in Users : Penalized(u)
    /\ users' = [u \in Users |->
                   [users[u] EXCEPT !.penaltyRemainingMs =
                       FloorAtZero(@ - INACTIVITY_WARNING_THRESHOLD_MS)]]
    /\ resp' = Response("tick", NoUser, "none", 0, "", <<>>)
    /\ UNCHANGED <<lobbies, sockets>>

(***************************************************************************)
(* Specifications.                                                         *)
(***************************************************************************)
CreateTypes == {"free-for-all-qna", "ranked-free-for-all-qna", "duel"}
\* the accounts that send requests, and the one that holds the socket session
Callers == {"u1", "u2"}
SessionUsers == {"u1"}

\* a request that was turned away: the handler returned before any write
Rejected == resp'.status >= 400

\* a step of the server while it still answers
Serve(A) == ~Hung /\ A /\ UNCHANGED pending
\* a step of the server whose request was not turned away
Accept(A) == ~Hung /\ A /\ ~Rejected /\ UNCHANGED pending

\* The six lobby routes, every request answered, rejections included.
NextApi ==
    \/ \E u \in Callers, cap \in 0..MaxCapacity, lives \in 0..MaxInitialLives,
          type \in CreateTypes :
           Serve(createLobby(u, cap, type, FALSE, lives))
    \/ \E u \in Callers, l \in LobbyIds : Serve(joinLobby(u, l))
    \/ \E u \in Callers, l \in LobbyIds : Serve(leaveLobby(u, l))
    \/ \E u \in Callers, l \in LobbyIds : Serve(toggleReady(u, l))
    \/ \E u \in Callers, l \in LobbyIds : Serve(startGame(u, l))
    \/ \E u \in Callers, l \in LobbyIds, a \in AnswerInputs :
           Serve(ScoredAnswers < MaxAnswers /\ submitAnswer(u, l, a))

SpecApi == Init /\ [][NextApi]_vars

\* The life of a lobby: the requests that were accepted, the socket events,
\* the inactivity timer and the passing of time.
Next ==
    \/ \E u \in SessionUsers, cap \in 0..MaxCapacity, lives \in 0..MaxInitialLives,
          type \in CreateTypes :
           Accept(createLobby(u, cap, type, FALSE, lives))
    \/ \E u \in Callers, l \in LobbyIds : Accept(joinLobby(u, l))
    \/ \E u \in Callers, l \in LobbyIds : Accept(leaveLobby(u, l))
    \/ \E u \in Callers, l \in LobbyIds : Accept(toggleReady(u, l))
    \/ \E u \in Callers, l \in LobbyIds : Accept(startGame(u, l))
    \/ \E u \in Callers, l \in LobbyIds, a \in AnswerInputs :
           Accept(ScoredAnswers < MaxAnswers /\ submitAnswer(u, l, a))
    \/ \E s \in Sockets : Serve(connect(s))
    \/ \E s \in Sockets, u \in SessionUsers : Serve(userEnteredGame(s, u))
    \/ \E s \in Sockets, u \in SessionUsers : Serve(activity(s, u))
    \/ \E s \in Sockets : Serve(userLeftGame(s))
    \/ \E s \in Sockets : Serve(disconnect(s))
    \/ \E s \in Sockets : Serve(inactivityExpiry(s))
    \/ Serve(Tick)

Spec == Init /\ [][Next]_vars

(***************************************************************************)
(* The turn engine on stored matches.  The routes above never put two      *)
(* humans or a shield into one roster, so the handler of a turn is also    *)
(* run from the started lobby documents the schema admits: rosters of two  *)
(* or three humans, shields held, every mode.                              *)
(***************************************************************************)
TurnTypes == {"ranked-free-for-all-qna", "free-for-all-qna", "custom-fill-in-blanks"}
TurnRosters == { <<"u1", "u2">>, <<"u1", "u2", "u3">>, <<"u1", "u2", "bot_1">> }
\* a fresh profile, and one that cleared a solo stage (elo + 75, tokens + 50)
TurnProfiles == { NewUser, [NewUser EXCEPT !.elo = 75, !.tokens = 50] }

TurnPlayer(id, isRanked, profile, lives, shields, hand) ==
    IF id \in Users
    THEN [HumanPlayer(id, isRanked, profile, lives, hand) EXCEPT
             !.isReady = TRUE, !.shields = shields]
    ELSE [BotPlayer(1, lives, hand) EXCEPT !.id = id]

TurnDoc(type, roster, lives, shields, isFrenzyMode, hand, deck, profile) ==
    [type |-> type, hostId |-> roster[1],
     players |-> [i \in DOMAIN roster |->
                    TurnPlayer(roster[i], IsRankedType(type), profile, lives,
                               shields, hand)],
     maxPlayers |-> Len(roster), gameStarted |-> TRUE,
     isRanked |-> IsRankedType(type), isCustom |-> IsCustomType(type),
     isFrenzyMode |-> isFrenzyMode, initialLives |-> lives,
     playerCycles |-> 0, currentQuestionIndex |-> 0, currentPlayerIndex |-> 0,
     questions |-> deck]

\* the hand dealt at the start: three copies of the first card in frenzy mode
TurnHand(isFrenzyMode) ==
    IF isFrenzyMode THEN [i \in 1..StartingHandSize |-> abilityCards[1]] ELSE <<>>

InitTurn ==
    \E type \in TurnTypes, roster \in TurnRosters, lives \in 1..MaxLives,
       shields \in 0..MaxShields, isFrenzyMode \in BOOLEAN,
       profile \in TurnProfiles :
    \E deck \in Shuffles(QuestionBank(type)) :
        /\ lobbies = [l \in LobbyIds |->
                        TurnDoc(type, roster, lives, shields, isFrenzyMode,
                                TurnHand(isFrenzyMode), deck, profile)]
        /\ users = [u \in Users |-> profile]
        /\ sockets = [s \in Sockets |-> NewSocket]
        /\ resp = Response("none", NoUser, "none", 0, "", <<>>)
        /\ pending = NoRequests

\* one answer per bank that matches letter case aside, and one that never does
TurnAnswers == { <<"4">>, <<"W", "o", "r", "l", "d">>, <<"X">> }

NextTurn ==
    \E u \in Users, l \in LobbyIds, a \in TurnAnswers :
        Serve(ScoredAnswers < MaxTurns /\ submitAnswer(u, l, a))

SpecTurn == InitTurn /\ [][NextTurn]_vars

(***************************************************************************)
(* A match played to its end: two humans, or one human and a bot, without  *)
(* shields or cards, every player starting with the same number of lives.  *)
(***************************************************************************)
MatchRosters == { <<"u1", "u2">>, <<"u1", "bot_1">> }

\* the decks startGame may store, over the first MatchDeck questions of a bank
MatchDecks(type) ==
    Shuffles(SubSeq(IF IncludesQna(type) THEN originalQuestions
                    ELSE IF IncludesFill(type) THEN fillInBlanksQuestions
                    ELSE originalQuestions, 1, MatchDeck))

InitMatch ==
    \E type \in TurnTypes, roster \in MatchRosters, lives \in 1..MatchLives :
    \E deck \in MatchDecks(type) :
        /\ lobbies = [l \in LobbyIds |->
                        TurnDoc(type, roster, lives, 0, FALSE, <<>>, deck, NewUser)]
        /\ users = [u \in Users |-> NewUser]
        /\ sockets = [s \in Sockets |-> NewSocket]
        /\ resp = Response("none", NoUser, "none", 0, "", <<>>)
        /\ pending = NoRequests

NextMatch ==
    \E u \in Callers, l \in LobbyIds, a \in TurnAnswers :
        Serve(ScoredAnswers < MatchTurns /\ submitAnswer(u, l, a))

SpecMatch == InitMatch /\ [][NextMatch]_vars

(***************************************************************************)
(* The routes with frenzy mode chosen at creation: lobbies of two players  *)
(* with one life each, one match per lobby, accepted requests only.        *)
(***************************************************************************)
DealCapacities == {2}
DealTypes == {"free-for-all-qna", "ranked-free-for-all-qna", "custom-qna"}
DealAnswers == { <<"4">>, <<"X">> }

NextDeal ==
    \/ \E u \in SessionUsers, cap \in DealCapacities, type \in DealTypes,
          isFrenzyMode \in BOOLEAN :
           Accept(createLobby(u, cap, type, isFrenzyMode, 1))
    \/ \E u \in Callers, l \in LobbyIds : Accept(joinLobby(u, l))
    \/ \E u \in Callers, l \in LobbyIds : Accept(leaveLobby(u, l))
    \/ \E u \in Callers, l \in LobbyIds : Accept(toggleReady(u, l))
    \/ \E u \in Callers, l \in LobbyIds :
           Accept(ScoredAnswers = 0 /\ startGame(u, l))
    \/ \E u \in Callers, l \in LobbyIds, a \in DealAnswers :
           Accept(ScoredAnswers = 0 /\ submitAnswer(u, l, a))

SpecDeal == Init /\ [][NextDeal]_vars

(***************************************************************************)
(* Joining: every join request with its answer, next to the accepted       *)
(* requests and the inactivity timer that free a slot or penalize a user.  *)
(***************************************************************************)
JoinCapacities == {2, 3}

NextJoin ==
    \/ \E u \in SessionUsers, cap \in JoinCapacities, type \in DealTypes :
           Accept(createLobby(u, cap, type, FALSE, 1))
    \/ \E u \in Callers, l \in LobbyIds : Serve(joinLobby(u, l))
    \/ \E u \in Callers, l \in LobbyIds : Accept(startGame(u, l))
    \/ \E u \in Callers, l \in LobbyIds, a \in DealAnswers :
           Accept(ScoredAnswers = 0 /\ submitAnswer(u, l, a))
    \/ \E s \in Sockets : Serve(connect(s))
    \/ \E s \in Sockets, u \in SessionUsers : Serve(userEnteredGame(s, u))
    \/ \E s \in Sockets : Serve(inactivityExpiry(s))
    \/ Serve(Tick)

SpecJoin == Init /\ [][NextJoin]_vars

(***************************************************************************)
(* Leaving: the leave handler on stored lobbies of several humans, waiting *)
(* or started, with a bot in front of, between or behind the humans.       *)
(***************************************************************************)
LeaveRosters ==
    { <<"u1", "u2">>, <<"u1", "u2", "u3">>, <<"u1", "bot_1", "u2">>,
      <<"u1", "u2", "bot_1">>, <<"bot_1", "u1", "u2">> }

InitLeave ==
    \E type \in TurnTypes, roster \in LeaveRosters, lives \in 1..MaxLives,
       started \in BOOLEAN :
    \E deck \in Shuffles(QuestionBank(type)) :
        /\ lobbies = [l \in LobbyIds |->
                        [TurnDoc(type, roster, lives, 0, FALSE, <<>>, deck, NewUser)
                            EXCEPT !.gameStarted = started, !.hostId = "u1"]]
        /\ users = [u \in Users |-> NewUser]
        /\ sockets = [s \in Sockets |-> NewSocket]
        /\ resp = Response("none", NoUser, "none", 0, "", <<>>)
        /\ pending = NoRequests

NextLeave == \E u \in Users, l \in LobbyIds : Serve(leaveLobby(u, l))

SpecLeave == InitLeave /\ [][NextLeave]_vars

(***************************************************************************)
(* The penalty: create and join requests with their answers, next to the   *)
(* inactivity timer that penalizes a user and the time that lifts it.      *)
(***************************************************************************)
NextPenalty ==
    \/ \E u \in SessionUsers, type \in DealTypes :
           Serve(createLobby(u, 2, type, FALSE, 1))
    \/ \E u \in Callers, l \in LobbyIds : Serve(joinLobby(u, l))
    \/ \E u \in Callers, l \in LobbyIds : Accept(leaveLobby(u, l))
    \/ \E u \in Callers, l \in LobbyIds : Accept(startGame(u, l))
    \/ \E u \in Callers, l \in LobbyIds, a \in DealAnswers :
           Accept(ScoredAnswers = 0 /\ submitAnswer(u, l, a))
    \/ \E s \in Sockets : Serve(connect(s))
    \/ \E s \in Sockets, u \in SessionUsers : Serve(userEnteredGame(s, u))
    \/ \E s \in Sockets : Serve(inactivityExpiry(s))
    \/ Serve(Tick)

SpecPenalty == Init /\ [][NextPenalty]_vars

(***************************************************************************)
(* The inactivity removal on stored matches of several humans: the timer   *)
(* of a session fires for a player of a started lobby.                     *)
(***************************************************************************)
InitKick ==
    \E type \in TurnTypes, roster \in LeaveRosters, lives \in 1..MaxLives,
       warnings \in 0..(MAX_WARNINGS - 1) :
    \E deck \in Shuffles(QuestionBank(type)) :
        /\ lobbies = [l \in LobbyIds |->
                        [TurnDoc(type, roster, lives, 0, FALSE, <<>>, deck, NewUser)
                            EXCEPT !.hostId = "u1"]]
        /\ users = [u \in Users |-> [NewUser EXCEPT !.warningCount = warnings]]
        /\ sockets = [s \in Sockets |-> NewSocket]
        /\ resp = Response("none", NoUser, "none", 0, "", <<>>)
        /\ pending = NoRequests

NextKick ==
    \/ \E s \in Sockets : Serve(connect(s))
    \/ \E s \in Sockets, u \in Callers : Serve(userEnteredGame(s, u))
    \/ \E s \in Sockets : Serve(inactivityExpiry(s))

SpecKick == InitKick /\ [][NextKick]_vars

(***************************************************************************)
(* Two Socket.IO connections: every interleaving of their events and of    *)
(* the two inactivity timers, for the one account that plays.              *)
(***************************************************************************)
SessionSockets == {"s1", "s2"}

InitSessions ==
    /\ lobbies = << >>
    /\ users = [u \in Users |-> NewUser]
    /\ sockets = [s \in SessionSockets |-> NewSocket]
    /\ resp = Response("none", NoUser, "none", 0, "", <<>>)
    /\ pending = NoRequests

NextSessions ==
    \/ \E s \in SessionSockets : Serve(connect(s))
    \/ \E s \in SessionSockets, u \in SessionUsers : Serve(userEnteredGame(s, u))
    \/ \E s \in SessionSockets, u \in SessionUsers : Serve(activity(s, u))
    \/ \E s \in SessionSockets : Serve(userLeftGame(s))
    \/ \E s \in SessionSockets : Serve(disconnect(s))
    \/ \E s \in SessionSockets : Serve(inactivityExpiry(s))
    \/ Serve(Tick)

SpecSessions == InitSessions /\ [][NextSessions]_vars

(***************************************************************************)
(* Failing saves: the matches of SpecMatch with answers whose saves go     *)
(* through and answers of which one save throws.                           *)
(***************************************************************************)
FaultAnswers == 2

NextFault ==
    \/ \E u \in Callers, l \in LobbyIds, a \in DealAnswers :
           Serve(ScoredAnswers < FaultAnswers /\ submitAnswer(u, l, a))
    \/ \E u \in Callers, l \in LobbyIds, a \in DealAnswers, failAt \in SaveFailures :
           Serve(ScoredAnswers < FaultAnswers
                 /\ submitAnswerSaveFails(u, l, a, failAt))

SpecFault == InitMatch /\ [][NextFault]_vars

(***************************************************************************)
(* Two inactivity callbacks at once: the timers of two connections fire    *)
(* for one account and their loads and saves interleave.                   *)
(***************************************************************************)
NextProfile ==
    \/ \E s \in SessionSockets : Serve(connect(s))
    \/ \E s \in SessionSockets, u \in SessionUsers : Serve(userEnteredGame(s, u))
    \/ \E s \in SessionSockets : Serve(disconnect(s))
    \/ \E r \in Requests, s \in SessionSockets : expiryLoad(r, s)
    \/ \E r \in Requests : expirySave(r)
    \/ Serve(Tick)

SpecProfile == InitSessions /\ [][NextProfile]_vars

(***************************************************************************)
(* Two join requests at once: a lobby is created, played and left with a   *)
(* free slot, and the loads and saves of the joins interleave.             *)
(***************************************************************************)
NextRace ==
    \/ \E u \in SessionUsers, cap \in JoinCapacities, type \in DealTypes :
           Accept(createLobby(u, cap, type, FALSE, 1))
    \/ \E u \in Callers, l \in LobbyIds : Accept(toggleReady(u, l))
    \/ \E u \in Callers, l \in LobbyIds : Accept(startGame(u, l))
    \/ \E u \in Callers, l \in LobbyIds, a \in DealAnswers :
           Accept(ScoredAnswers = 0 /\ submitAnswer(u, l, a))
    \/ \E r \in Requests, u \in Callers, l \in LobbyIds : joinLoad(r, u, l)
    \/ \E r \in Requests : joinSave(r)

SpecRace == Init /\ [][NextRace]_vars

(***************************************************************************)
(* The card cadence: matches of two or three humans, with and without      *)
(* frenzy mode, played for CadenceTurns answers from their start.          *)
(***************************************************************************)
CadenceTypes == {"free-for-all-qna", "solo-coding-challenge"}
CadenceRosters == { <<"u1", "u2">>, <<"u1", "u2", "u3">> }

InitCadence ==
    \E type \in CadenceTypes, roster \in CadenceRosters, lives \in 1..MaxLives,
       isFrenzyMode \in BOOLEAN :
    \E deck \in Shuffles(QuestionBank(type)) :
        /\ lobbies = [l \in LobbyIds |->
                        TurnDoc(type, roster, lives, 0, isFrenzyMode,
                                TurnHand(isFrenzyMode), deck, NewUser)]
        /\ users = [u \in Users |-> NewUser]
        /\ sockets = [s \in Sockets |-> NewSocket]
        /\ resp = Response("none", NoUser, "none", 0, "", <<>>)
        /\ pending = NoRequests

NextCadence ==
    \E u \in Users, l \in LobbyIds, a \in DealAnswers :
        Serve(ScoredAnswers < CadenceTurns /\ submitAnswer(u, l, a))

SpecCadence == InitCadence /\ [][NextCadence]_vars

(***************************************************************************)
(* The deck of a lobby over its life: lobbies of every mode family are     *)
(* created, started, played, left, restarted and cleared by the inactivity *)
(* timer.                                                                  *)
(***************************************************************************)
DeckTypes ==
    {"free-for-all-qna", "custom-fill-in-blanks", "1v1-fill-in-blanks",
     "solo-coding-challenge"}

NextDeck ==
    \/ \E u \in SessionUsers, cap \in 0..MaxCapacity, type \in DeckTypes :
           Accept(createLobby(u, cap, type, FALSE, 1))
    \/ \E u \in Callers, l \in LobbyIds : Accept(joinLobby(u, l))
    \/ \E u \in Callers, l \in LobbyIds : Accept(leaveLobby(u, l))
    \/ \E u \in Callers, l \in LobbyIds : Accept(toggleReady(u, l))
    \/ \E u \in Callers, l \in LobbyIds : Accept(startGame(u, l))
    \/ \E u \in Callers, l \in LobbyIds, a \in TurnAnswers :
           Accept(ScoredAnswers < MaxAnswers /\ submitAnswer(u, l, a))
    \/ \E s \in Sockets : Serve(connect(s))
    \/ \E s \in Sockets, u \in SessionUsers : Serve(userEnteredGame(s, u))
    \/ \E s \in Sockets : Serve(inactivityExpiry(s))

SpecDeck == Init /\ [][NextDeck]_vars

(***************************************************************************)
(* Matches on lobbies created with few lives: two or three humans who were *)
(* reset by startGame to initialLives -1, 0 or 1.                          *)
(***************************************************************************)
InitLives ==
    \E type \in CadenceTypes, roster \in CadenceRosters, lives \in -1..1,
       isFrenzyMode \in BOOLEAN :
    \E deck \in Shuffles(QuestionBank(type)) :
        /\ lobbies = [l \in LobbyIds |->
                        TurnDoc(type, roster, lives, 0, isFrenzyMode,
                                TurnHand(isFrenzyMode), deck, NewUser)]
        /\ users = [u \in Users |-> NewUser]
        /\ sockets = [s \in Sockets |-> NewSocket]
        /\ resp = Response("none", NoUser, "none", 0, "", <<>>)
        /\ pending = NoRequests

SpecLives == InitLives /\ [][NextCadence]_vars

(***************************************************************************)
(* One answer sent twice: a lobby is created and started, and the loads    *)
(* and saves of the answer requests interleave.                            *)
(***************************************************************************)
NextTwice ==
    \/ \E u \in SessionUsers, type \in DealTypes :
           Accept(createLobby(u, 2, type, FALSE, 1))
    \/ \E u \in Callers, l \in LobbyIds : Accept(toggleReady(u, l))
    \/ \E u \in Callers, l \in LobbyIds :
           Accept(ScoredAnswers = 0 /\ startGame(u, l))
    \/ \E r \in Requests, u \in Callers, l \in LobbyIds, a \in DealAnswers :
           ScoredAnswers < FaultAnswers /\ answerLoad(r, u, l, a)
    \/ \E r \in Requests : answerSave(r)

SpecTwice == Init /\ [][NextTwice]_vars

(***************************************************************************)
(* Properties.                                                             *)
(***************************************************************************)
PlayerOf(players, id) == players[IndexOf(players, id)]
Emitted(ev) == \E i \in DOMAIN resp.events : resp.events[i] = ev
\* the step is an answer of u on lobby l that was scored and saved
AnswerResolved(u, l) ==
    /\ resp'.op = "answer" /\ resp'.user = u /\ resp'.lobbyId = l
    /\ resp'.status = 200
    /\ l \in DOMAIN lobbies /\ HasPlayer(lobbies[l].players, u)
\* the submitted text equals the canonical answer, letter case aside
RawCorrect(l) ==
    toLowerCase(resp'.answer) =
        toLowerCase(lobbies[l].questions[lobbies[l].currentQuestionIndex + 1].a)
Max0(x) == IF x > 0 THEN x ELSE 0

\* C1: in a started lobby that still has a player, currentPlayerIndex is
\* inside the player list and the player it names has lives > 0.
C1_TurnPointerOnLivePlayer ==
    \A l \in DOMAIN lobbies :
        (lobbies[l].gameStarted /\ Len(lobbies[l].players) >= 1) =>
            /\ lobbies[l].currentPlayerIndex \in 0..(Len(lobbies[l].players) - 1)
            /\ lobbies[l].players[lobbies[l].currentPlayerIndex + 1].lives > 0

\* C2: after a resolved submitAnswer no player left in the roster has
\* lives <= 0, whatever initial-lives value the lobby was created with.
C2_NoDeadPlayerAfterTurn ==
    (resp.op = "answer" /\ resp.status = 200 /\ resp.lobbyId \in DOMAIN lobbies) =>
        \A i \in DOMAIN lobbies[resp.lobbyId].players :
            lobbies[resp.lobbyId].players[i].lives > 0

\* C3: a stored lobby never holds more players than its capacity.
C3_WithinCapacity ==
    \A l \in DOMAIN lobbies : Len(lobbies[l].players) <= lobbies[l].maxPlayers

\* C4: the hostId of a stored lobby is the id of a human in its player list.
C4_HostIsHumanMember ==
    \A l \in DOMAIN lobbies :
        \E i \in DOMAIN lobbies[l].players :
            /\ lobbies[l].players[i].id = lobbies[l].hostId
            /\ lobbies[l].players[i].type = "human"

\* C5: no stored lobby is without a human player.
C5_HumanInEveryLobby ==
    \A l \in DOMAIN lobbies :
        \E i \in DOMAIN lobbies[l].players : lobbies[l].players[i].type = "human"

\* C6: a join by a user already in the player list is answered 200 and
\* changes no lobby, in every lobby state (full and started included).
C6_MemberJoinIdempotent ==
    [][\A u \in Users, l \in LobbyIds :
          ( /\ resp'.op = "join" /\ resp'.user = u /\ resp'.lobbyId = l
            /\ l \in DOMAIN lobbies
            /\ HasPlayer(lobbies[l].players, u)
            /\ ~Penalized(u) )
          => (resp'.status = 200 /\ lobbies' = lobbies)]_vars

\* C7 (scenario A): a second human who joins a capacity-2 ranked quiz lobby
\* still holding its creator is admitted to the player list.
C7_SecondHumanJoinsRankedPair ==
    [][\A u \in Users, l \in LobbyIds :
          ( /\ resp'.op = "join" /\ resp'.user = u /\ resp'.lobbyId = l
            /\ l \in DOMAIN lobbies
            /\ lobbies[l].maxPlayers = 2
            /\ lobbies[l].type = "ranked-free-for-all-qna"
            /\ ~lobbies[l].gameStarted
            /\ HasPlayer(lobbies[l].players, lobbies[l].hostId)
            /\ ~HasPlayer(lobbies[l].players, u)
            /\ ~Penalized(u) )
          => (resp'.status = 200 /\ HasPlayer(lobbies'[l].players, u))]_vars

\* the ledger rule of one answer, written out field by field
LedgerRule(before, isRanked, rawCorrect) ==
    IF isRanked
    THEN [before EXCEPT
            !.rankedTotalAnswers = before.rankedTotalAnswers + 1,
            !.rankedCorrectAnswers =
                before.rankedCorrectAnswers + (IF rawCorrect THEN 1 ELSE 0),
            !.elo = IF rawCorrect THEN before.elo + 15 ELSE Max0(before.elo - 10)]
    ELSE [before EXCEPT
            !.casualTotalAnswers = before.casualTotalAnswers + 1,
            !.casualCorrectAnswers =
                before.casualCorrectAnswers + (IF rawCorrect THEN 1 ELSE 0),
            !.casualPoints = IF rawCorrect THEN before.casualPoints + 10
                             ELSE Max0(before.casualPoints - 5)]

\* C8: a raw-incorrect answer of a current player holding a shield uses up
\* exactly one shield and leaves the lives alone, while the profile is
\* charged as for any incorrect answer (ranked: rating - 10, floored at 0).
C8_ShieldSparesLifeNotLedger ==
    [][\A u \in Users, l \in LobbyIds :
          ( /\ AnswerResolved(u, l)
            /\ ~RawCorrect(l)
            /\ PlayerOf(lobbies[l].players, u).shields >= 1 )
          => LET before == PlayerOf(lobbies[l].players, u) IN
             /\ l \in DOMAIN lobbies'
             /\ HasPlayer(lobbies'[l].players, u)
             /\ PlayerOf(lobbies'[l].players, u).shields = before.shields - 1
             /\ PlayerOf(lobbies'[l].players, u).lives = before.lives
             /\ [users'[u] EXCEPT !.tokens = 0] =
                    [LedgerRule(users[u], lobbies[l].isRanked, FALSE)
                        EXCEPT !.tokens = 0]]_vars

\* a ranked answer was absorbed by the last shield and cost 10 rating points
C8_Witness ==
    /\ resp.op = "answer" /\ resp.status = 200
    /\ Emitted("chat:absorbed")
    /\ resp.lobbyId \in DOMAIN lobbies
    /\ lobbies[resp.lobbyId].isRanked
    /\ HasPlayer(lobbies[resp.lobbyId].players, resp.user)
    /\ PlayerOf(lobbies[resp.lobbyId].players, resp.user).shields = 0
    /\ PlayerOf(lobbies[resp.lobbyId].players, resp.user).lives >= 1
    /\ users[resp.user].elo = 65

\* C9: a resolved answer charges the answerer's profile by exactly one
\* ledger rule (ranked: total + 1 and correct + 1, rating + 15 or rating - 10;
\* otherwise casual total + 1 and correct + 1, points + 10 or points - 5),
\* no other profile's ledger moves, and no rating or points value is below 0.
C9_OneLedgerRulePerAnswer ==
    [][/\ \A u \in Users, l \in LobbyIds :
            AnswerResolved(u, l) =>
                /\ [users'[u] EXCEPT !.tokens = 0] =
                      [LedgerRule(users[u], lobbies[l].isRanked, RawCorrect(l))
                          EXCEPT !.tokens = 0]
                /\ \A v \in Users \ {u} :
                      [users'[v] EXCEPT !.tokens = 0] = [users[v] EXCEPT !.tokens = 0]
       /\ \A v \in Users :
            (users[v].elo >= 0 /\ users[v].casualPoints >= 0)
                => (users'[v].elo >= 0 /\ users'[v].casualPoints >= 0)]_vars

\* a ranked wrong answer of a profile with rating 0 left the rating at 0
C9_Witness ==
    /\ resp.op = "answer" /\ resp.status = 200
    /\ Emitted("chat:incorrect")
    /\ resp.lobbyId \in DOMAIN lobbies
    /\ lobbies[resp.lobbyId].isRanked
    /\ users[resp.user].rankedTotalAnswers = 1
    /\ users[resp.user].rankedCorrectAnswers = 0
    /\ users[resp.user].elo = 0

\* C10: an effective-correct answer (raw-correct or shielded) adds 1 to
\* round-correct and 100 to the round score, keeps the answerer's lives and
\* keeps the answerer in the roster; an effective-incorrect answer takes
\* exactly 1 life and 50 round score.
C10_LifeAndScoreUpdate ==
    [][\A u \in Users, l \in LobbyIds :
          AnswerResolved(u, l) =>
            LET before == PlayerOf(lobbies[l].players, u)
                effective == RawCorrect(l) \/ before.shields >= 1
            IN  IF effective
                THEN /\ l \in DOMAIN lobbies'
                     /\ HasPlayer(lobbies'[l].players, u)
                     /\ PlayerOf(lobbies'[l].players, u).lives = before.lives
                     /\ PlayerOf(lobbies'[l].players, u).roundCorrectAnswers =
                            before.roundCorrectAnswers + 1
                     /\ PlayerOf(lobbies'[l].players, u).currentRoundScore =
                            before.currentRoundScore + 100
                ELSE (l \in DOMAIN lobbies' /\ HasPlayer(lobbies'[l].players, u)) =>
                     /\ PlayerOf(lobbies'[l].players, u).lives = before.lives - 1
                     /\ PlayerOf(lobbies'[l].players, u).roundCorrectAnswers =
                            before.roundCorrectAnswers
                     /\ PlayerOf(lobbies'[l].players, u).currentRoundScore =
                            before.currentRoundScore - 50]_vars

\* the token payout of a finished match, by the mode of the lobby
Payout(type) ==
    100 + (IF IsRankedType(type) THEN 150 ELSE IF IsCustomType(type) THEN 100 ELSE 0)

\* C11: a wrong answer without a shield costs one life; the answerer stays
\* in the roster while a life is left and is removed by the answer that
\* takes the last one (the third, from 3 lives).  If exactly one human is
\* left after a removal the game is finished and that human's tokens grow
\* by 100, plus 150 in a ranked or 100 in a custom lobby; if no human is
\* left no profile's tokens change.
C11_ThreeStrikesAndPayout ==
    [][\A u \in Users, l \in LobbyIds :
          ( /\ AnswerResolved(u, l)
            /\ ~RawCorrect(l)
            /\ PlayerOf(lobbies[l].players, u).shields = 0 )
          => LET before == PlayerOf(lobbies[l].players, u)
                 left == IF l \in DOMAIN lobbies' THEN Humans(lobbies'[l].players)
                         ELSE <<>>
             IN  /\ l \in DOMAIN lobbies'
                 /\ before.lives > 1 =>
                        /\ HasPlayer(lobbies'[l].players, u)
                        /\ PlayerOf(lobbies'[l].players, u).lives = before.lives - 1
                 /\ before.lives = 1 =>
                        /\ ~HasPlayer(lobbies'[l].players, u)
                        /\ Len(left) = 1 =>
                              /\ ~lobbies'[l].gameStarted
                              /\ users'[left[1].id].tokens =
                                    users[left[1].id].tokens + Payout(lobbies[l].type)
                        /\ Len(left) = 0 =>
                              \A v \in Users : users'[v].tokens = users[v].tokens]_vars

\* a player who started a ranked match with 3 lives was removed by the third
\* of three wrong answers, and the human left over was paid 250 tokens
C11_Witness ==
    /\ resp.op = "answer" /\ resp.status = 200
    /\ Emitted("chat:eliminated")
    /\ resp.lobbyId \in DOMAIN lobbies
    /\ lobbies[resp.lobbyId].initialLives = 3
    /\ lobbies[resp.lobbyId].isRanked
    /\ ~lobbies[resp.lobbyId].gameStarted
    /\ ~HasPlayer(lobbies[resp.lobbyId].players, resp.user)
    /\ users[resp.user].rankedTotalAnswers = 3
    /\ users[resp.user].rankedCorrectAnswers = 0
    /\ Len(Humans(lobbies[resp.lobbyId].players)) = 1
    /\ users[Humans(lobbies[resp.lobbyId].players)[1].id].tokens = 250

\* a started lobby has a deck and its question index points into it
QuestionIndexInDeck ==
    \A l \in DOMAIN lobbies :
        lobbies[l].gameStarted =>
            /\ Len(lobbies[l].questions) > 0
            /\ lobbies[l].currentQuestionIndex \in 0..(Len(lobbies[l].questions) - 1)

\* C12: in a started lobby 0 <= currentQuestionIndex < questions.length and
\* the deck is not empty; a resolved turn that does not end the game moves
\* the index from questions.length - 1 to 0 and from any other value up by 1.
C12_QuestionIndexCycles ==
    /\ []QuestionIndexInDeck
    /\ [][\A u \in Users, l \in LobbyIds :
            ( /\ AnswerResolved(u, l)
              /\ l \in DOMAIN lobbies'
              /\ lobbies'[l].gameStarted )
            => lobbies'[l].currentQuestionIndex =
                 IF lobbies[l].currentQuestionIndex = Len(lobbies[l].questions) - 1
                 THEN 0
                 ELSE lobbies[l].currentQuestionIndex + 1]_vars

\* the second question of a two-question deck was answered and the index
\* is back at 0, the match still running
C12_Witness ==
    /\ resp.op = "answer" /\ resp.status = 200
    /\ resp.lobbyId \in DOMAIN lobbies
    /\ lobbies[resp.lobbyId].gameStarted
    /\ Len(lobbies[resp.lobbyId].questions) = 2
    /\ lobbies[resp.lobbyId].currentQuestionIndex = 0
    /\ users["u1"].rankedTotalAnswers + users["u1"].casualTotalAnswers = 1
    /\ users["u2"].rankedTotalAnswers + users["u2"].casualTotalAnswers = 1

\* a hand as the mode prescribes: 3 catalog cards in frenzy mode, else none
DealtHand(hand, isFrenzyMode) ==
    /\ Len(hand) = (IF isFrenzyMode THEN 3 ELSE 0)
    /\ \A i \in DOMAIN hand : hand[i] \in Range(abilityCards)

\* every hand of a lobby that is not in frenzy mode is empty
NoCardsOutsideFrenzy ==
    \A l \in DOMAIN lobbies :
        ~lobbies[l].isFrenzyMode =>
            \A i \in DOMAIN lobbies[l].players : lobbies[l].players[i].cards = <<>>

C14_StartGuards ==
    [][\A u \in Users, l \in LobbyIds :
          (resp'.op = "start" /\ resp'.user = u /\ resp'.lobbyId = l)
          => LET refused ==
                   \/ l \notin DOMAIN lobbies
                   \/ lobbies[l].hostId # u
                   \/ Len(lobbies[l].players) < 2
                   \/ \E i \in DOMAIN lobbies[l].players :
                         ~lobbies[l].players[i].isReady
             IN  IF refused
                 THEN resp'.status >= 400 /\ lobbies' = lobbies /\ users' = users
                 ELSE /\ resp'.status = 200
                      /\ l \in DOMAIN lobbies'
                      /\ lobbies'[l].gameStarted]_vars

\* the host of a lobby of two was refused because a player is not ready
C14_Witness ==
    /\ resp.op = "start" /\ resp.status = 400
    /\ resp.lobbyId \in DOMAIN lobbies
    /\ lobbies[resp.lobbyId].hostId = resp.user
    /\ Len(lobbies[resp.lobbyId].players) = 2
    /\ \E i \in DOMAIN lobbies[resp.lobbyId].players :
          ~lobbies[resp.lobbyId].players[i].isReady
    /\ ~lobbies[resp.lobbyId].gameStarted

C16_AnswerRejections ==
    [][\A u \in Users, l \in LobbyIds :
          (resp'.op = "answer" /\ resp'.user = u /\ resp'.lobbyId = l)
          => LET notActive == l \notin DOMAIN lobbies \/ ~lobbies[l].gameStarted
                 notTurn ==
                   /\ ~notActive
                   /\ \/ ~HasPlayer(lobbies[l].players, u)
                      \/ lobbies[l].currentPlayerIndex + 1 \notin DOMAIN lobbies[l].players
                      \/ lobbies[l].players[lobbies[l].currentPlayerIndex + 1].id # u
             IN  /\ notActive =>
                     resp'.status = 400 /\ lobbies' = lobbies /\ users' = users
                 /\ notTurn =>
                     resp'.status = 403 /\ lobbies' = lobbies /\ users' = users]_vars

\* a member of a running match answered out of turn and was refused
C16_Witness ==
    /\ resp.op = "answer" /\ resp.status = 403
    /\ resp.lobbyId \in DOMAIN lobbies
    /\ lobbies[resp.lobbyId].gameStarted
    /\ HasPlayer(lobbies[resp.lobbyId].players, resp.user)
    /\ lobbies[resp.lobbyId].players[lobbies[resp.lobbyId].currentPlayerIndex + 1].id
          # resp.user

\* C17: a join by a user who is not in the lobby fails and changes no lobby
\* when the lobby does not exist, the user is penalized, the lobby is full
\* or its game has started; otherwise it appends one human player for the
\* user at the end of the list, with the lobby's initial-lives and ready
\* exactly when the lobby is ranked, and changes nothing else of the lobby.
C17_JoinGuardsAndAppend ==
    [][\A u \in Users, l \in LobbyIds :
          ( /\ resp'.op = "join" /\ resp'.user = u /\ resp'.lobbyId = l
            /\ (l \in DOMAIN lobbies => ~HasPlayer(lobbies[l].players, u)) )
          => LET refused ==
                   \/ l \notin DOMAIN lobbies
                   \/ Penalized(u)
                   \/ Len(lobbies[l].players) >= lobbies[l].maxPlayers
                   \/ lobbies[l].gameStarted
             IN  IF refused
                 THEN resp'.status >= 400 /\ lobbies' = lobbies /\ users' = users
                 ELSE /\ resp'.status = 200
                      /\ l \in DOMAIN lobbies'
                      /\ [lobbies'[l] EXCEPT !.players = lobbies[l].players] = lobbies[l]
                      /\ Len(lobbies'[l].players) = Len(lobbies[l].players) + 1
                      /\ SubSeq(lobbies'[l].players, 1, Len(lobbies[l].players))
                            = lobbies[l].players
                      /\ LET p == lobbies'[l].players[Len(lobbies'[l].players)]
                         IN  /\ p.id = u
                             /\ p.type = "human"
                             /\ p.lives = lobbies[l].initialLives
                             /\ p.isReady = IsRankedType(lobbies[l].type)]_vars

\* a user was added behind the bot of a lobby whose human had been removed
C17_Witness ==
    /\ resp.op = "join" /\ resp.status = 200 /\ resp.msg = "joined"
    /\ resp.lobbyId \in DOMAIN lobbies
    /\ Len(lobbies[resp.lobbyId].players) = 2
    /\ lobbies[resp.lobbyId].players[1].type = "bot"
    /\ lobbies[resp.lobbyId].players[2].id = resp.user
    /\ lobbies[resp.lobbyId].players[2].lives = lobbies[resp.lobbyId].initialLives

\* C18: a leave by a member takes exactly that player out of the list and
\* keeps the order of the others; while a human remains the hostId becomes
\* the id of the first human of the remaining list if the leaver was the
\* host and is unchanged otherwise (with no human left the lobby is
\* destroyed); a leave by a user outside the lobby fails and changes nothing.
C18_LeaveRemovesAndReassigns ==
    [][\A u \in Users, l \in LobbyIds :
          ( /\ resp'.op = "leave" /\ resp'.user = u /\ resp'.lobbyId = l
            /\ l \in DOMAIN lobbies )
          => LET before == lobbies[l]
                 rest == SelectSeq(before.players, LAMBDA p : p.id # u)
                 humans == SelectSeq(rest, LAMBDA p : p.type = "human")
             IN  IF ~HasPlayer(before.players, u)
                 THEN resp'.status >= 400 /\ lobbies' = lobbies /\ users' = users
                 ELSE /\ resp'.status = 200
                      /\ users' = users
                      /\ IF humans = <<>>
                         THEN l \notin DOMAIN lobbies'
                         ELSE /\ l \in DOMAIN lobbies'
                              /\ lobbies'[l].players = rest
                              /\ lobbies'[l].hostId =
                                    IF before.hostId = u THEN humans[1].id
                                    ELSE before.hostId
                              /\ [lobbies'[l] EXCEPT !.players = before.players,
                                                     !.hostId = before.hostId]
                                    = before]_vars

\* the host u1 left and the first human behind a bot took over as host
C18_Witness ==
    /\ resp.op = "leave" /\ resp.status = 200 /\ resp.user = "u1"
    /\ resp.lobbyId \in DOMAIN lobbies
    /\ ~HasPlayer(lobbies[resp.lobbyId].players, resp.user)
    /\ Len(lobbies[resp.lobbyId].players) = 2
    /\ lobbies[resp.lobbyId].players[1].type = "bot"
    /\ lobbies[resp.lobbyId].players[2].type = "human"
    /\ lobbies[resp.lobbyId].hostId = lobbies[resp.lobbyId].players[2].id

\* every player of a ranked lobby is ready
RankedAllReady ==
    \A l \in DOMAIN lobbies :
        IsRankedType(lobbies[l].type) =>
            \A i \in DOMAIN lobbies[l].players : lobbies[l].players[i].isReady

\* C19: in a ranked lobby every player is ready in every state and a
\* toggleReady is refused without a change; in a lobby that is not ranked a
\* toggleReady by a member flips the ready flag of that member and nothing
\* else; a toggleReady by a user outside the lobby fails.
C19_ReadyRules ==
    /\ []RankedAllReady
    /\ [][\A u \in Users, l \in LobbyIds :
            ( /\ resp'.op = "ready" /\ resp'.user = u /\ resp'.lobbyId = l
              /\ l \in DOMAIN lobbies )
            => IF ~HasPlayer(lobbies[l].players, u) \/ IsRankedType(lobbies[l].type)
               THEN resp'.status >= 400 /\ lobbies' = lobbies /\ users' = users
               ELSE /\ resp'.status = 200
                    /\ users' = users
                    /\ l \in DOMAIN lobbies'
                    /\ [lobbies'[l] EXCEPT !.players = lobbies[l].players] = lobbies[l]
                    /\ Len(lobbies'[l].players) = Len(lobbies[l].players)
                    /\ \A i \in DOMAIN lobbies[l].players :
                          IF lobbies[l].players[i].id = u
                          THEN lobbies'[l].players[i] =
                                 [lobbies[l].players[i] EXCEPT
                                    !.isReady = ~lobbies[l].players[i].isReady]
                          ELSE lobbies'[l].players[i] = lobbies[l].players[i]]_vars

\* a member of a ranked lobby asked to toggle and was refused
C19_Witness ==
    /\ resp.op = "ready" /\ resp.status = 400
    /\ resp.lobbyId \in DOMAIN lobbies
    /\ IsRankedType(lobbies[resp.lobbyId].type)
    /\ HasPlayer(lobbies[resp.lobbyId].players, resp.user)
    /\ PlayerOf(lobbies[resp.lobbyId].players, resp.user).isReady

\* C20: a lobby just created has its creator as host and as first player, a
\* human, followed by bots that fill the roster up to the capacity; every
\* bot is ready, the host is ready exactly when the mode is ranked, and
\* the lobby is not started.
C20_CreatedLobbyShape ==
    [][\A u \in Users, l \in LobbyIds :
          ( /\ resp'.op = "create" /\ resp'.user = u /\ resp'.lobbyId = l
            /\ resp'.status = 201 )
          => /\ l \notin DOMAIN lobbies /\ l \in DOMAIN lobbies'
             /\ LET lobby == lobbies'[l] IN
                 /\ lobby.hostId = u
                 /\ ~lobby.gameStarted
                 /\ Len(lobby.players) = lobby.maxPlayers
                 /\ Len(lobby.players) >= 1
                 /\ lobby.players[1].id = u
                 /\ lobby.players[1].type = "human"
                 /\ lobby.players[1].isReady = IsRankedType(lobby.type)
                 /\ \A i \in 2..Len(lobby.players) :
                       lobby.players[i].type = "bot" /\ lobby.players[i].isReady]_vars

\* C21: a createLobby request with capacity below 1, or with a mode outside
\* the known set, is answered with a client error (4xx) and stores no lobby.
C21_InvalidConfigRejected ==
    [][\A u \in Callers, cap \in 0..MaxCapacity, lives \in 0..MaxInitialLives,
          type \in CreateTypes :
          ( /\ cap < 1 \/ type \notin SchemaTypes
            /\ ~Penalized(u)
            /\ createLobby(u, cap, type, FALSE, lives) )
          => /\ resp'.status \in 400..499
             /\ lobbies' = lobbies]_vars

\* C22: while the penalty of a user runs, a create or join request of that
\* user is answered with the penalty error and leaves the lobbies as they
\* were; once the penalty time is over, with nothing else done to the
\* profile, neither request is answered with the penalty error.
C22_PenaltyBlocksCreateAndJoin ==
    [][\A u \in Users :
          (resp'.op \in {"create", "join"} /\ resp'.user = u) =>
              IF users[u].penaltyRemainingMs > 0
              THEN /\ resp'.status = 403 /\ resp'.msg = "penalized"
                   /\ lobbies' = lobbies
              ELSE resp'.msg # "penalized"]_vars

\* a penalized user was refused a join while a lobby was stored
C22_Witness ==
    /\ resp.op = "join" /\ resp.status = 403 /\ resp.msg = "penalized"
    /\ users[resp.user].penaltyRemainingMs > 0
    /\ resp.lobbyId \in DOMAIN lobbies

\* C23: the stored warningCount is never 3 or more; an inactivity expiry
\* takes it from 0 to 1 and from 1 to 2 without touching the penalty or any
\* lobby, and from 2 back to 0 with the penalty set to end 60 seconds later.
C23_WarningsThenPenalty ==
    /\ [](\A u \in Users : users[u].warningCount \in 0..(MAX_WARNINGS - 1))
    /\ [][\A u \in Users :
             (resp'.op = "expiry" /\ resp'.user = u) =>
                 IF users[u].warningCount < 2
                 THEN /\ users'[u].warningCount = users[u].warningCount + 1
                      /\ users'[u].penaltyRemainingMs = users[u].penaltyRemainingMs
                      /\ lobbies' = lobbies
                      /\ resp'.events = <<"inactivityWarning">>
                 ELSE /\ users'[u].warningCount = 0
                      /\ users'[u].penaltyRemainingMs = 60000]_vars

\* the third expiry was handled: the counter is back at 0, the penalty runs
C23_Witness ==
    /\ resp.op = "expiry" /\ resp.msg = "penalty"
    /\ users[resp.user].warningCount = 0
    /\ users[resp.user].penaltyRemainingMs = 60000

InGame(u) ==
    \E s \in DOMAIN sockets :
        sockets[s].connected /\ sockets[s].userId = u /\ sockets[s].isInGame

\* C25: once the sessions of a user have left the game or disconnected, no
\* inactivity expiry takes effect for that user until the user enters a game
\* again: an expiry changes a profile only while a connected session of
\* that user is in a game, whatever the other sessions sent.
C25_NoExpiryAfterExit ==
    [][\A u \in Users :
          (resp'.op = "expiry" /\ resp'.user = u) => InGame(u)]_vars

\* C26: an answer whose save failed emits no event: the chat messages about
\* the turn, the winner message and game-ended go out only once the state
\* they report is stored.
C26_EventsFollowSave ==
    [][(resp'.op = "answer" /\ resp'.status = 500) => resp'.events = <<>>]_vars

\* C27: an answer of which a save failed persists nothing: the lobby and
\* every profile (the answerer's ledger, the winner's tokens) are as they
\* were before the call.
C27_FailedAnswerPersistsNothing ==
    [][(resp'.op = "answer" /\ resp'.status = 500) =>
           (lobbies' = lobbies /\ users' = users)]_vars

\* C28: an operation that changes a profile applies its delta to what is
\* stored when it saves, so that the deltas of two interleaved operations
\* both show: the profile stored by an inactivity warning is the profile
\* stored just before it with that one warning counted.
C28_NoLostProfileDelta ==
    [][\A u \in Users :
          (resp'.op = "expiry" /\ resp'.user = u) => users'[u] = Warned(users[u])]_vars

\* C29: the operations on one lobby take effect one after the other: a join
\* is admitted only into a lobby that, when the join is stored, is waiting,
\* has a free slot and does not hold the user yet, so that of two joins
\* into one free slot at most one is admitted.
C29_JoinsSerialized ==
    [][\A u \in Users, l \in LobbyIds :
          ( /\ resp'.op = "join" /\ resp'.user = u /\ resp'.lobbyId = l
            /\ resp'.msg = "joined" )
          => /\ l \in DOMAIN lobbies
             /\ ~JoinRefused(lobbies[l])
             /\ ~HasPlayer(lobbies[l].players, u)]_vars

\* C30: a resolved turn that does not end the game raises playerCycles by
\* exactly 1 (a bot's turn in a solo lobby leaves it unchanged); in frenzy
\* mode, exactly when the new counter is a multiple of twice the number of
\* remaining players, every remaining player gets exactly one more card,
\* and in every other case no hand changes.
C30_CyclesAndCardCadence ==
    [][\A u \in Users, l \in LobbyIds :
          (AnswerResolved(u, l) /\ resp'.msg = "Answer processed") =>
              LET before == lobbies[l]
                  after == lobbies'[l]
                  answerer == PlayerOf(before.players, u)
                  counted == ~(answerer.type = "bot" /\ IsSoloType(before.type))
                  dealt == /\ before.isFrenzyMode
                           /\ after.playerCycles % (Len(after.players) * 2) = 0
              IN  /\ after.playerCycles =
                        before.playerCycles + (IF counted THEN 1 ELSE 0)
                  /\ \A i \in DOMAIN after.players :
                        LET old == PlayerOf(before.players, after.players[i].id).cards
                            new == after.players[i].cards
                        IN  IF dealt
                            THEN /\ Len(new) = Len(old) + 1
                                 /\ SubSeq(new, 1, Len(old)) = old
                                 /\ new[Len(new)] \in Range(abilityCards)
                            ELSE new = old]_vars

\* the fourth turn of a frenzy match of two dealt a fourth card to each hand
C30_Witness ==
    /\ resp.op = "answer" /\ resp.msg = "Answer processed"
    /\ resp.lobbyId \in DOMAIN lobbies
    /\ lobbies[resp.lobbyId].isFrenzyMode
    /\ lobbies[resp.lobbyId].playerCycles = 4
    /\ Len(lobbies[resp.lobbyId].players) = 2
    /\ \A i \in DOMAIN lobbies[resp.lobbyId].players :
          Len(lobbies[resp.lobbyId].players[i].cards) = StartingHandSize + 1

\* the fields of a player entry that the scoring of an answer may change
SameButScoring(old, new) ==
    new = [old EXCEPT !.roundTotalAnswers = new.roundTotalAnswers,
                      !.roundCorrectAnswers = new.roundCorrectAnswers,
                      !.currentRoundScore = new.currentRoundScore,
                      !.lives = new.lives,
                      !.shields = new.shields]

\* C31: a resolved answer after which at most one human remains ends the
\* game without advancing it: currentPlayerIndex, currentQuestionIndex, the
\* cycle counter and every hand stay as they were, and the lobby changes
\* only in the answerer's counters, score, lives and shields, in the
\* removal of the answerer, and in gameStarted becoming false.
C31_GameEndShortCircuits ==
    [][\A u \in Users, l \in LobbyIds :
          (AnswerResolved(u, l) /\ Len(Humans(lobbies'[l].players)) <= 1) =>
              LET before == lobbies[l]
                  after == lobbies'[l]
              IN  /\ ~after.gameStarted
                  /\ resp'.msg = "Game over"
                  /\ after = [before EXCEPT !.players = after.players,
                                            !.gameStarted = FALSE]
                  /\ RemoveId(after.players, u) = RemoveId(before.players, u)
                  /\ HasPlayer(after.players, u) =>
                        /\ Len(after.players) = Len(before.players)
                        /\ IndexOf(after.players, u) = IndexOf(before.players, u)
                        /\ SameButScoring(PlayerOf(before.players, u),
                                          PlayerOf(after.players, u))]_vars

\* a frenzy match ended on its second turn, away from the first seat
C31_Witness ==
    /\ resp.op = "answer" /\ resp.msg = "Game over"
    /\ resp.lobbyId \in DOMAIN lobbies
    /\ ~lobbies[resp.lobbyId].gameStarted
    /\ lobbies[resp.lobbyId].isFrenzyMode
    /\ lobbies[resp.lobbyId].currentPlayerIndex = 1
    /\ lobbies[resp.lobbyId].playerCycles = 1
    /\ Len(Humans(lobbies[resp.lobbyId].players)) = 1

\* the step is an accepted startGame on lobby l
GameStartedOn(l) ==
    resp'.op = "start" /\ resp'.lobbyId = l /\ resp'.status = 200

\* the first BankSize questions of the bank of a mode family: the fill-blank
\* bank for the fill-blank modes, the quiz bank for every other mode
FamilyBank(type) ==
    SubSeq(IF type \in {"1v1-fill-in-blanks", "ranked-1v1-fill-in-blanks",
                        "custom-fill-in-blanks"}
           THEN fillInBlanksQuestions ELSE originalQuestions, 1, BankSize)

\* deck holds every question of bank exactly once
IsPermutationOf(deck, bank) ==
    /\ Len(deck) = Len(bank)
    /\ \A i \in DOMAIN bank :
          Cardinality({j \in DOMAIN deck : deck[j] = bank[i]}) = 1

JoinAdmits(u, l) ==
    /\ resp'.op = "join" /\ resp'.user = u /\ resp'.lobbyId = l
    /\ resp'.status = 200
    /\ l \in DOMAIN lobbies /\ ~HasPlayer(lobbies[l].players, u)

\* the step leaves lobby l stored without a human, and it had one before
LosesLastHuman(l) ==
    /\ l \in DOMAIN lobbies /\ l \in DOMAIN lobbies'
    /\ Humans(lobbies[l].players) # << >>
    /\ Humans(lobbies'[l].players) = << >>

\* C33: with each request handled as one step no lobby holds two humans:
\* a created lobby is full, a lobby loses its only human and stays stored
\* by an elimination alone, and a join admits a non-member only to a lobby
\* that holds no human.
C33_AtMostOneHuman ==
    /\ [](\A l \in DOMAIN lobbies : Len(Humans(lobbies[l].players)) <= 1)
    /\ [][\A l \in LobbyIds :
            /\ (resp'.op = "create" /\ resp'.status < 400 /\ l \in DOMAIN lobbies'
                    /\ l \notin DOMAIN lobbies) =>
                   Len(lobbies'[l].players) >= lobbies'[l].maxPlayers
            /\ LosesLastHuman(l) =>
                   \E u \in Users :
                       /\ AnswerResolved(u, l)
                       /\ PlayerOf(lobbies[l].players, u).lives >= 1 =>
                             PlayerOf(lobbies[l].players, u).lives = 1
            /\ \A u \in Users :
                   JoinAdmits(u, l) =>
                       /\ Humans(lobbies[l].players) = << >>
                       /\ Humans(lobbies'[l].players)
                             = <<PlayerOf(lobbies'[l].players, u)>>]_vars

\* a second user sits in a lobby whose creator was eliminated
C33_Witness ==
    /\ resp.op = "join" /\ resp.status = 200 /\ resp.msg = "joined"
    /\ resp.lobbyId \in DOMAIN lobbies
    /\ lobbies[resp.lobbyId].hostId # resp.user
    /\ HasPlayer(lobbies[resp.lobbyId].players, resp.user)
    /\ Len(Humans(lobbies[resp.lobbyId].players)) = 1
    /\ Len(lobbies[resp.lobbyId].players) = lobbies[resp.lobbyId].maxPlayers

\* C34: a startGame on a lobby whose game is in progress is refused and
\* leaves the running match as it is.
C34_NoStartWhileInProgress ==
    [][\A l \in LobbyIds :
          (resp'.op = "start" /\ resp'.lobbyId = l /\ l \in DOMAIN lobbies
              /\ lobbies[l].gameStarted) =>
                  (resp'.status >= 400 /\ lobbies' = lobbies)]_vars

\* the id of the first player behind seat i (1-based) of the roster `old`
\* that is still in the roster `rest`, going round the table
SuccessorOf(old, i, rest) ==
    LET n == Len(old)
        seat(k) == ((i - 1 + k) % n) + 1
        k0 == CHOOSE k \in 1..n :
                  /\ HasPlayer(rest, old[seat(k)].id)
                  /\ \A j \in 1..(k - 1) : ~HasPlayer(rest, old[seat(j)].id)
    IN  old[seat(k0)].id

C37_TurnScoredOnce ==
    /\ [][(resp'.op = "answer" /\ users' # users) =>
             AnswerRefusal(resp'.user, resp'.lobbyId) = 0]_vars
    /\ [](\A u \in Users :
             /\ users[u].tokens <= NewUser.tokens + BaseTokens + RankedBonusTokens
             /\ users[u].rankedTotalAnswers + users[u].casualTotalAnswers <= 1)

\* C38: a game is in progress only while at least two humans are in the
\* roster: no match is started with fewer, and a removal that leaves at
\* most one human ends the match.
C38_InProgressNeedsTwoHumans ==
    \A l \in DOMAIN lobbies :
        lobbies[l].gameStarted => Len(Humans(lobbies[l].players)) >= 2

\* C39: while a game is in progress the player at currentPlayerIndex is a
\* human member of the lobby, so that an answer of that player is accepted
\* and the match is never stuck on the turn of a bot.
C39_TurnBelongsToHuman ==
    \A l \in DOMAIN lobbies :
        lobbies[l].gameStarted =>
            /\ lobbies[l].currentPlayerIndex < Len(lobbies[l].players)
            /\ IsHuman(lobbies[l].players[lobbies[l].currentPlayerIndex + 1])
            /\ \E u \in Users : AnswerRefusal(u, l) = 0

====
